---- MODULE Spec2Model ----
(***************************************************************************)
(* Event-sourced shopping cart: the decider (decide / evolve), the JSON    *)
(* file event store wrapped around the in-memory store, and the command    *)
(* handler of the HTTP api that composes them.                             *)
(*                                                                         *)
(* Every `await` of the handler and of the store is a point at which       *)
(* another invocation may run, so each action below is the code between    *)
(* two awaits.                                                             *)
(***************************************************************************)
EXTENDS Integers, Sequences, FiniteSets, TLC

\* ------------------------------------------------------------------ bounds

\* Longest stream the model lets grow: no command is started on a stream that
\* already holds this many events.
MaxEvents == 3

\* ------------------------------------------------------------- input sets

\* The request slots: two command invocations run concurrently, and a slot
\* takes the next request once it has answered the last.
InvocationIds == {1, 2}

\* Cart identifiers (the :id route parameter; uuid() for a new cart).
StreamIds == {"c1"}

\* customerId of the request body (or uuid()).
CustomerIds == {"u1"}

\* Values getCurrentTime() / new Date() can return: Date objects.
Times == {[date |-> 1]}

\* A timestamp field that is not set (confirmedAt?, cancelledAt?).
NoDate == [undefined |-> TRUE]

\* productCatalog: the price of each known product; a product that is not in
\* its domain has no price.
productCatalog == [p \in {"p1", "p2"} |-> IF p = "p1" THEN 10 ELSE 20]

\* Product identifiers the concurrent requests name: one of the catalog, one
\* unknown; and the quantity their bodies carry.
ProductIds == {"p1", "px"}
Quantities == {1}

\* Product identifiers and quantities of the requests that are handled one
\* after the other: two products of the catalog and one unknown, and
\* quantities below, at and above zero.
SerialProductIds == {"p1", "p2", "px"}
SerialQuantities == {-1, 0, 1, 2}

\* ------------------------------------------------------------ the decider

\* initialState(): the state of a stream without events. openedAt is new Date(),
\* one of Times.
initialState == [id |-> "", customerId |-> "", status |-> "Opened",
                 items |-> << >>, openedAt |-> CHOOSE t \in Times : TRUE,
                 confirmedAt |-> NoDate, cancelledAt |-> NoDate]

IllegalStateError(message) == [type |-> "IllegalStateError", message |-> message]

IsEvent(decision) == decision.type \notin {"IllegalStateError", "Error"}

\* Array.prototype.findIndex on the line items, 1-based; 0 when none matches
\* (the code's -1).
findIndex(items, productId) ==
    IF \E i \in 1..Len(items) : items[i].productId = productId
    THEN CHOOSE i \in 1..Len(items) :
            /\ items[i].productId = productId
            /\ \A j \in 1..(i - 1) : items[j].productId # productId
    ELSE 0

\* A decider that stamps the event with the wall clock (new Date()), whatever
\* time it is given.
openAtWallClock(command, state, now) ==
    IF state.id # ""
    THEN IllegalStateError("Shopping cart already exists")
    ELSE [type |-> "ShoppingCartOpened",
          data |-> [shoppingCartId |-> command.data.shoppingCartId,
                    customerId |-> command.data.customerId,
                    openedAt |-> CHOOSE t \in Times : TRUE]]

\* A decider that lets a cart that has been closed be opened again.
openUnlessOpen(command, state, now) ==
    IF state.id # "" /\ state.status = "Opened"
    THEN IllegalStateError("Shopping cart already exists")
    ELSE [type |-> "ShoppingCartOpened",
          data |-> [shoppingCartId |-> command.data.shoppingCartId,
                    customerId |-> command.data.customerId,
                    openedAt |-> now]]

openShoppingCart(command, state, now) ==
    IF state.id # ""
    THEN IllegalStateError("Shopping cart already exists")
    ELSE [type |-> "ShoppingCartOpened",
          data |-> [shoppingCartId |-> command.data.shoppingCartId,
                    customerId |-> command.data.customerId,
                    openedAt |-> now]]

addProductItem(command, state, now) ==
    IF state.status # "Opened"
    THEN IllegalStateError("Cannot add product to a closed shopping cart")
    ELSE [type |-> "ProductItemAddedToShoppingCart",
          data |-> [shoppingCartId |-> command.data.shoppingCartId,
                    productItem |-> command.data.productItem,
                    addedAt |-> now]]

\* A decider that removes from a line whatever quantity is asked.
removeAnyQuantity(command, state, now) ==
    LET existingIndex == findIndex(state.items, command.data.productItem.productId) IN
    IF state.status # "Opened"
    THEN IllegalStateError("Cannot remove product from a closed shopping cart")
    ELSE IF existingIndex = 0
    THEN IllegalStateError("Product item not found in shopping cart")
    ELSE [type |-> "ProductItemRemovedFromShoppingCart",
          data |-> [shoppingCartId |-> command.data.shoppingCartId,
                    productItem |-> command.data.productItem,
                    removedAt |-> now]]

removeProductItem(command, state, now) ==
    LET existingIndex == findIndex(state.items, command.data.productItem.productId) IN
    IF state.status # "Opened"
    THEN IllegalStateError("Cannot remove product from a closed shopping cart")
    ELSE IF existingIndex = 0
    THEN IllegalStateError("Product item not found in shopping cart")
    ELSE IF state.items[existingIndex].quantity < command.data.productItem.quantity
    THEN IllegalStateError("Cannot remove more items than available in cart")
    ELSE [type |-> "ProductItemRemovedFromShoppingCart",
          data |-> [shoppingCartId |-> command.data.shoppingCartId,
                    productItem |-> command.data.productItem,
                    removedAt |-> now]]

\* A decider that confirms an open cart whatever it holds.
confirmWithoutItems(command, state, now) ==
    IF state.status # "Opened"
    THEN IllegalStateError("Cannot confirm a shopping cart that is not open")
    ELSE [type |-> "ShoppingCartConfirmed",
          data |-> [shoppingCartId |-> command.data.shoppingCartId,
                    confirmedAt |-> now]]

confirmShoppingCart(command, state, now) ==
    IF state.status # "Opened"
    THEN IllegalStateError("Cannot confirm a shopping cart that is not open")
    ELSE IF Len(state.items) = 0
    THEN IllegalStateError("Cannot confirm an empty shopping cart")
    ELSE [type |-> "ShoppingCartConfirmed",
          data |-> [shoppingCartId |-> command.data.shoppingCartId,
                    confirmedAt |-> now]]

\* A decider that takes the cart identifier of the event from the state.
cancelWithStateId(command, state, now) ==
    IF state.status # "Opened"
    THEN IllegalStateError("Cannot cancel a shopping cart that is not open")
    ELSE [type |-> "ShoppingCartCancelled",
          data |-> [shoppingCartId |-> state.id,
                    cancelledAt |-> now]]

cancelShoppingCart(command, state, now) ==
    IF state.status # "Opened"
    THEN IllegalStateError("Cannot cancel a shopping cart that is not open")
    ELSE [type |-> "ShoppingCartCancelled",
          data |-> [shoppingCartId |-> command.data.shoppingCartId,
                    cancelledAt |-> now]]

decide(command, state, now) ==
    CASE command.type = "OpenShoppingCart" -> openShoppingCart(command, state, now)
      [] command.type = "AddProductItemToShoppingCart" -> addProductItem(command, state, now)
      [] command.type = "RemoveProductItemFromShoppingCart" -> removeProductItem(command, state, now)
      [] command.type = "ConfirmShoppingCart" -> confirmShoppingCart(command, state, now)
      [] command.type = "CancelShoppingCart" -> cancelShoppingCart(command, state, now)
      [] OTHER -> [type |-> "Error", message |-> "Unknown command type"]

\* A fold that gives every added product item a line of its own.
appendProductItem(items, productItem) == Append(items, productItem)

mergeProductItems(items, productItem) ==
    LET existingIndex == findIndex(items, productItem.productId) IN
    IF existingIndex > 0
    THEN [items EXCEPT ![existingIndex].quantity = @ + productItem.quantity]
    ELSE Append(items, productItem)

\* A fold that keeps a line whatever its quantity has become.
subtractKeepingLine(items, productItem) ==
    LET existingIndex == findIndex(items, productItem.productId) IN
    IF existingIndex = 0
    THEN items
    ELSE [items EXCEPT ![existingIndex].quantity = @ - productItem.quantity]

removeProductItems(items, productItem) ==
    LET existingIndex == findIndex(items, productItem.productId) IN
    IF existingIndex = 0
    THEN items
    ELSE LET newQuantity == items[existingIndex].quantity - productItem.quantity IN
         IF newQuantity <= 0
         THEN SubSeq(items, 1, existingIndex - 1)
                 \o SubSeq(items, existingIndex + 1, Len(items))
         ELSE [items EXCEPT ![existingIndex].quantity = newQuantity]

\* A fold that throws for an event type it does not know.
evolveKnownTypes(state, event) ==
    CASE event.type = "ShoppingCartOpened" ->
            [id |-> event.data.shoppingCartId,
             customerId |-> event.data.customerId,
             status |-> "Opened",
             items |-> << >>,
             openedAt |-> event.data.openedAt,
             confirmedAt |-> NoDate,
             cancelledAt |-> NoDate]
      [] event.type = "ProductItemAddedToShoppingCart" ->
            [state EXCEPT !.items = mergeProductItems(state.items, event.data.productItem)]
      [] event.type = "ProductItemRemovedFromShoppingCart" ->
            [state EXCEPT !.items = removeProductItems(state.items, event.data.productItem)]
      [] event.type = "ShoppingCartConfirmed" ->
            [state EXCEPT !.status = "Confirmed", !.confirmedAt = event.data.confirmedAt]
      [] event.type = "ShoppingCartCancelled" ->
            [state EXCEPT !.status = "Cancelled", !.cancelledAt = event.data.cancelledAt]
      [] OTHER -> [type |-> "Error", message |-> "Unknown event type"]

evolve(state, event) ==
    CASE event.type = "ShoppingCartOpened" ->
            [id |-> event.data.shoppingCartId,
             customerId |-> event.data.customerId,
             status |-> "Opened",
             items |-> << >>,
             openedAt |-> event.data.openedAt,
             confirmedAt |-> NoDate,
             cancelledAt |-> NoDate]
      [] event.type = "ProductItemAddedToShoppingCart" ->
            [state EXCEPT !.items = mergeProductItems(state.items, event.data.productItem)]
      [] event.type = "ProductItemRemovedFromShoppingCart" ->
            [state EXCEPT !.items = removeProductItems(state.items, event.data.productItem)]
      [] event.type = "ShoppingCartConfirmed" ->
            [state EXCEPT !.status = "Confirmed", !.confirmedAt = event.data.confirmedAt]
      [] event.type = "ShoppingCartCancelled" ->
            [state EXCEPT !.status = "Cancelled", !.cancelledAt = event.data.cancelledAt]
      [] OTHER -> state

\* for (const event of readResult.events) currentState = evolve(currentState, event)
RECURSIVE Fold(_)
Fold(events) ==
    IF Len(events) = 0
    THEN initialState
    ELSE evolve(Fold(SubSeq(events, 1, Len(events) - 1)), events[Len(events)])

\* ------------------------------------------------- strings of digits

\* bigint.toString() / String(bigint): the decimal digits of n >= 0, most
\* significant first.
RECURSIVE toString(_)
toString(n) ==
    IF n < 10 THEN <<n>> ELSE Append(toString(n \div 10), n % 10)

\* BigInt(text) of a string of decimal digits.
RECURSIVE BigInt(_)
BigInt(text) ==
    IF Len(text) = 0
    THEN 0
    ELSE 10 * BigInt(SubSeq(text, 1, Len(text) - 1)) + text[Len(text)]

\* ------------------------------------------------------------------ JSON

\* Date.prototype.toISOString / toJSON: the string that denotes the instant.
toISOString(value) == [iso |-> value.date]

\* The timestamp fields of the events' data.
DateFields == {"openedAt", "addedAt", "removedAt", "confirmedAt", "cancelledAt"}

\* What JSON.parse reads back of the event data JSON.stringify has written:
\* a Date has become its ISO string, every other field is as it was.
jsonOfData(data) ==
    [f \in DOMAIN data |->
        IF f \in DateFields /\ "date" \in DOMAIN data[f]
        THEN toISOString(data[f])
        ELSE data[f]]

\* ------------------------------------------------------------ the state

VARIABLES
    streams,   \* the in-memory store: stream name -> its events, in append order
    files,     \* the data directory: stream name -> content of <streamId>.json
    inv        \* the command invocations in flight, by request slot

vars == <<streams, files, inv>>

\* No <streamId>.json in the data directory.
NoFile == [exists |-> FALSE, complete |-> FALSE]

\* A file that fs.writeFile has truncated and not yet written in full.
TornFile == [exists |-> TRUE, complete |-> FALSE]

\* ------------------------------------------------ the in-memory store

\* getAllEventsCount(): the events of all streams.
RECURSIVE SumLen(_, _)
SumLen(all, names) ==
    IF names = {}
    THEN 0
    ELSE LET n == CHOOSE x \in names : TRUE IN Len(all[n]) + SumLen(all, names \ {n})

getAllEventsCount(all) == SumLen(all, DOMAIN all)

\* readStream(streamName): the events of the stream and its version, which is
\* the number of its events (0 for a stream that does not exist).
readStream(all, streamName) ==
    [events |-> all[streamName],
     currentStreamVersion |-> Len(all[streamName])]

\* matchesExpectedVersion: an expected version that is not given (undefined,
\* here the empty set) matches every stream.
\* A store that compares no versions.
matchesAnyVersion(current, expected) == TRUE

\* assertExpectedVersionMatchesCurrent: no expected version matches every
\* current one.
matchesExpectedVersion(current, expected) ==
    \A v \in expected : current = v

\* A store that numbers stream positions from the count after the append of
\* the whole batch.
newReadEventsSkipping(all, streamName, events) ==
    [index \in 1..Len(events) |->
        [type |-> events[index].type,
         data |-> events[index].data,
         metadata |-> [streamName |-> streamName,
                       streamPosition |-> Len(all[streamName]) + Len(events) + index,
                       globalPosition |-> getAllEventsCount(all) + index]]]

\* The events as the store keeps them: each with its position in the stream
\* and in the store.
newReadEvents(all, streamName, events) ==
    [index \in 1..Len(events) |->
        [type |-> events[index].type,
         data |-> events[index].data,
         metadata |-> [streamName |-> streamName,
                       streamPosition |-> Len(all[streamName]) + index,
                       globalPosition |-> getAllEventsCount(all) + index]]]

\* A store that updates the stream before it compares the versions.
appendThenCompare(all, streamName, events, expected) ==
    LET currentStreamVersion == Len(all[streamName])
        newEvents == newReadEvents(all, streamName, events)
        appended == [all EXCEPT ![streamName] = @ \o newEvents]
    IN  IF ~matchesExpectedVersion(currentStreamVersion, expected)
        THEN [type |-> "ExpectedVersionConflictError",
              current |-> currentStreamVersion,
              streams |-> appended,
              nextExpectedStreamVersion |-> 0]
        ELSE [type |-> "AppendToStreamResult",
              current |-> currentStreamVersion,
              streams |-> appended,
              nextExpectedStreamVersion |->
                  newEvents[Len(newEvents)].metadata.streamPosition]

\* A store that keeps one version for all its streams: the expected version
\* is compared with the number of events of the whole store.
appendAgainstStoreVersion(all, streamName, events, expected) ==
    LET currentStreamVersion == getAllEventsCount(all)
        newEvents == newReadEvents(all, streamName, events)
    IN  IF ~matchesExpectedVersion(currentStreamVersion, expected)
        THEN [type |-> "ExpectedVersionConflictError",
              current |-> currentStreamVersion,
              streams |-> all,
              nextExpectedStreamVersion |-> 0]
        ELSE [type |-> "AppendToStreamResult",
              current |-> currentStreamVersion,
              streams |-> [all EXCEPT ![streamName] = @ \o newEvents],
              nextExpectedStreamVersion |->
                  newEvents[Len(newEvents)].metadata.streamPosition]

\* The in-memory appendToStream, up to its first await: the version check
\* and the update of the stream are one step.
originalAppendToStream(all, streamName, events, expected) ==
    LET currentStreamVersion == Len(all[streamName])
        newEvents == newReadEvents(all, streamName, events)
    IN  IF ~matchesExpectedVersion(currentStreamVersion, expected)
        THEN [type |-> "ExpectedVersionConflictError",
              current |-> currentStreamVersion,
              streams |-> all,
              nextExpectedStreamVersion |-> 0]
        ELSE [type |-> "AppendToStreamResult",
              current |-> currentStreamVersion,
              streams |-> [all EXCEPT ![streamName] = @ \o newEvents],
              nextExpectedStreamVersion |->
                  newEvents[Len(newEvents)].metadata.streamPosition]

\* ------------------------------------------------------ the request inputs

\* If-Match header values: no header (the empty string, which the routes
\* treat as no header too), or the decimal digits of a revision.
IfMatchHeaders == {<< >>} \cup {toString(v) : v \in 0..(MaxEvents - 1)}

\* A route that takes the revision after the one the header names.
expectedRevisionAfter(revisionHeader) ==
    IF Len(revisionHeader) = 0 THEN {} ELSE {BigInt(revisionHeader) + 1}

\* revisionHeader ? BigInt(revisionHeader) : undefined -- undefined is the
\* empty set, a revision v the set {v}.
expectedRevisionOf(revisionHeader) ==
    IF Len(revisionHeader) = 0 THEN {} ELSE {BigInt(revisionHeader)}

\* getProductPrice: the catalog's price, or undefined (the empty set).
getProductPrice(productId) ==
    IF productId \in DOMAIN productCatalog THEN {productCatalog[productId]} ELSE {}

\* quantity || 1 of the delete route: 0 (and an absent quantity) become 1.
quantityOrOne(quantity) == IF quantity = 0 THEN 1 ELSE quantity

OpenShoppingCartCommand(shoppingCartId, customerId) ==
    [type |-> "OpenShoppingCart",
     data |-> [shoppingCartId |-> shoppingCartId, customerId |-> customerId]]

AddProductItemCommand(id, productId, quantity, unitPrice) ==
    [type |-> "AddProductItemToShoppingCart",
     data |-> [shoppingCartId |-> id,
               productItem |-> [productId |-> productId,
                                quantity |-> quantity,
                                unitPrice |-> unitPrice]]]

RemoveProductItemCommand(id, productId, quantity) ==
    [type |-> "RemoveProductItemFromShoppingCart",
     data |-> [shoppingCartId |-> id,
               productItem |-> [productId |-> productId,
                                quantity |-> quantityOrOne(quantity)]]]

ConfirmShoppingCartCommand(id) ==
    [type |-> "ConfirmShoppingCart", data |-> [shoppingCartId |-> id]]

CancelShoppingCartCommand(id) ==
    [type |-> "CancelShoppingCart", data |-> [shoppingCartId |-> id]]

\* ------------------------------------------------------- the invocations

NoCommand == [type |-> "none", data |-> [shoppingCartId |-> ""]]

NoReadResult == [events |-> << >>, currentStreamVersion |-> 0]

\* A request slot that has handled nothing yet.
Idle ==
    [pc |-> "idle",
     streamId |-> "",
     body |-> [productId |-> "", quantity |-> 0],
     command |-> NoCommand,
     expectedRevision |-> {},
     readResult |-> NoReadResult,
     nextExpectedStreamVersion |-> 0,
     streamResult |-> NoReadResult,
     writeFailed |-> FALSE,
     status |-> 0,
     error |-> "",
     current |-> 0,
     revision |-> << >>,
     remaining |-> {}]

\* A slot that takes a request: it has handled none, or has answered its last.
Free(i) == inv[i].pc \in {"idle", "done"}

\* Invocations that have named the stream and not yet answered.
InFlight(id) == {i \in InvocationIds : ~Free(i) /\ inv[i].streamId = id}

\* Invocations on the stream that have not yet reached the store's append.
Pending(id) == {i \in InFlight(id) : inv[i].pc \in {"price", "read"}}

\* uuid() returns an identifier nothing has used: no events, no file, and no
\* request naming it.
Unused(id) ==
    /\ Len(streams[id]) = 0
    /\ files[id] = NoFile
    /\ InFlight(id) = {}

\* A client can name a cart identifier in a request unless the identifier is
\* that of a POST /carts still in flight, which only the response reveals.
\* (The first conjunct bounds the model: a stream never holds more than
\* MaxEvents events.)
CanName(id) ==
    /\ Len(streams[id]) + Cardinality(Pending(id)) < MaxEvents
    /\ \A i \in InFlight(id) :
          inv[i].command.type # "OpenShoppingCart" /\ inv[i].status # 201

\* handleCommand up to its first await: readStream is called, on behalf of a
\* request that has built its command.
HandleCommandRead(all, request, streamId, command, expectedRevision) ==
    [request EXCEPT !.pc = "read",
                    !.streamId = streamId,
                    !.command = command,
                    !.expectedRevision = expectedRevision,
                    !.readResult = readStream(all, streamId)]

\* catch (error) { res.status(400).json({ error: error.message }) }: the
\* answer to a request whose handling threw. The message of a version
\* conflict names the expected and the current version.
Failed(invocation, error, current) ==
    [Idle EXCEPT !.pc = "done",
                 !.streamId = invocation.streamId,
                 !.status = 400,
                 !.error = error,
                 !.expectedRevision =
                     IF error = "ExpectedVersionConflictError"
                     THEN invocation.expectedRevision ELSE {},
                 !.current =
                     IF error = "ExpectedVersionConflictError" THEN current ELSE 0]

\* POST /carts, to handleCommand's readStream
postCarts(all, shoppingCartId, customerId) ==
    HandleCommandRead(all, Idle, shoppingCartId,
                      OpenShoppingCartCommand(shoppingCartId, customerId), {})

\* POST /carts/:id/items, to await getProductPrice(productId)
postItems(id, productId, quantity, revisionHeader) ==
    [Idle EXCEPT !.pc = "price",
                 !.streamId = id,
                 !.body = [productId |-> productId, quantity |-> quantity],
                 !.expectedRevision = expectedRevisionOf(revisionHeader)]

\* POST /carts/:id/items, from the price to handleCommand's readStream, or to
\* the throw for a product without a price
priceResolved(all, request) ==
    LET unitPrice == getProductPrice(request.body.productId) IN
    IF unitPrice = {}
    THEN Failed(request, "Error", 0)
    ELSE HandleCommandRead(all, request, request.streamId,
             AddProductItemCommand(request.streamId, request.body.productId,
                                   request.body.quantity,
                                   CHOOSE price \in unitPrice : TRUE),
             request.expectedRevision)

\* DELETE /carts/:id/items/:productId, to handleCommand's readStream
deleteItems(all, id, productId, quantity, revisionHeader) ==
    HandleCommandRead(all, Idle, id, RemoveProductItemCommand(id, productId, quantity),
                      expectedRevisionOf(revisionHeader))

\* POST /carts/:id/confirm, to handleCommand's readStream
postConfirm(all, id, revisionHeader) ==
    HandleCommandRead(all, Idle, id, ConfirmShoppingCartCommand(id),
                      expectedRevisionOf(revisionHeader))

\* POST /carts/:id/cancel, to handleCommand's readStream
postCancel(all, id, revisionHeader) ==
    HandleCommandRead(all, Idle, id, CancelShoppingCartCommand(id),
                      expectedRevisionOf(revisionHeader))

\* A handler that records the rejected command in the stream before it
\* throws decide's rejection.
appendRejection(all, invocation, now) ==
    LET currentState == Fold(invocation.readResult.events)
        newEvent == decide(invocation.command, currentState, now)
        rejected == [type |-> "CommandRejected", data |-> invocation.command.data]
    IN  IF ~IsEvent(newEvent)
        THEN [type |-> newEvent.type,
              current |-> Len(all[invocation.streamId]),
              streams |-> originalAppendToStream(all, invocation.streamId,
                                                 <<rejected>>, {}).streams,
              nextExpectedStreamVersion |-> 0]
        ELSE originalAppendToStream(all, invocation.streamId, <<newEvent>>,
                                    invocation.expectedRevision)

\* handleCommand after readStream has answered, up to the first await inside
\* the in-memory appendToStream: the fold, decide, and the append of the new
\* event with the caller's expectedRevision. A rejection by decide is thrown
\* before the store is called.
handleCommandAppend(all, invocation, now) ==
    LET currentState == Fold(invocation.readResult.events)
        newEvent == decide(invocation.command, currentState, now)
    IN  IF ~IsEvent(newEvent)
        THEN [type |-> newEvent.type,
              current |-> Len(all[invocation.streamId]),
              streams |-> all,
              nextExpectedStreamVersion |-> 0]
        ELSE originalAppendToStream(all, invocation.streamId, <<newEvent>>,
                                    invocation.expectedRevision)

\* The invocation once the store has taken its event: what it still holds
\* that matters is the stream, the expected revision it passed, the version
\* to return, and the status of the route's answer (201 for POST /carts, 200
\* for the other routes).
Appended(invocation, appendResult) ==
    [Idle EXCEPT
        !.pc = "appended",
        !.streamId = invocation.streamId,
        !.expectedRevision = invocation.expectedRevision,
        !.nextExpectedStreamVersion = appendResult.nextExpectedStreamVersion,
        !.status = IF invocation.command.type = "OpenShoppingCart" THEN 201 ELSE 200]

\* A handler that, on a version conflict, reads the stream again and tries
\* the command once more with the version it then finds.
retryAfterConflict(invocation, appendResult) ==
    IF appendResult.type = "AppendToStreamResult"
    THEN Appended(invocation, appendResult)
    ELSE IF appendResult.type = "ExpectedVersionConflictError"
    THEN [invocation EXCEPT
            !.readResult = readStream(appendResult.streams, invocation.streamId),
            !.expectedRevision = {appendResult.current}]
    ELSE Failed(invocation, appendResult.type, appendResult.current)

\* The invocation after handleCommandAppend: on to the save, or answered with
\* the error thrown.
afterAppend(invocation, appendResult) ==
    IF appendResult.type = "AppendToStreamResult"
    THEN Appended(invocation, appendResult)
    ELSE Failed(invocation, appendResult.type, appendResult.current)

\* The content written to <streamId>.json.
jsonData(streamId, streamResult, now) ==
    [exists |-> TRUE,
     complete |-> TRUE,
     streamId |-> streamId,
     events |-> [k \in 1..Len(streamResult.events) |->
                   [type |-> streamResult.events[k].type,
                    data |-> jsonOfData(streamResult.events[k].data),
                    metadata |->
                       [streamName |-> streamResult.events[k].metadata.streamName,
                        streamPosition |->
                           toString(streamResult.events[k].metadata.streamPosition),
                        globalPosition |->
                           toString(streamResult.events[k].metadata.globalPosition)]]],
     currentStreamVersion |-> toString(streamResult.currentStreamVersion),
     lastUpdated |-> toISOString(now)]

\* loadExistingData's for loop: on to the next file, or the end of the load.
LoadNext(remaining) ==
    [Idle EXCEPT !.pc = IF remaining = {} THEN "done" ELSE "loadNext",
                 !.remaining = remaining]

\* A store whose appendToStream never returns once the file is written.
neverReturning(invocation) == invocation

\* return result: to the route, which answers with the new revision, or (no
\* status to answer with) to loadExistingData, which goes on with its loop.
Succeeded(invocation) ==
    IF invocation.status = 0
    THEN LoadNext(invocation.remaining)
    ELSE [Idle EXCEPT
            !.pc = "done",
            !.streamId = invocation.streamId,
            !.status = invocation.status,
            !.revision = toString(invocation.nextExpectedStreamVersion)]

\* catch (error) { console.warn(...) } and return result: the invocation
\* after a write that failed.
WriteFailed(invocation) ==
    [Succeeded(invocation) EXCEPT !.writeFailed = TRUE]

\* ------------------------------------------- the steps of an invocation

PostCarts(i, shoppingCartId, customerId) ==
    /\ Free(i)
    /\ Unused(shoppingCartId)
    /\ inv' = [inv EXCEPT ![i] = postCarts(streams, shoppingCartId, customerId)]
    /\ UNCHANGED <<streams, files>>

PostItems(i, id, productId, quantity, revisionHeader) ==
    /\ Free(i)
    /\ CanName(id)
    /\ inv' = [inv EXCEPT ![i] = postItems(id, productId, quantity, revisionHeader)]
    /\ UNCHANGED <<streams, files>>

PriceResolved(i) ==
    /\ inv[i].pc = "price"
    /\ inv' = [inv EXCEPT ![i] = priceResolved(streams, @)]
    /\ UNCHANGED <<streams, files>>

DeleteItems(i, id, productId, quantity, revisionHeader) ==
    /\ Free(i)
    /\ CanName(id)
    /\ inv' = [inv EXCEPT ![i] =
                  deleteItems(streams, id, productId, quantity, revisionHeader)]
    /\ UNCHANGED <<streams, files>>

PostConfirm(i, id, revisionHeader) ==
    /\ Free(i)
    /\ CanName(id)
    /\ inv' = [inv EXCEPT ![i] = postConfirm(streams, id, revisionHeader)]
    /\ UNCHANGED <<streams, files>>

PostCancel(i, id, revisionHeader) ==
    /\ Free(i)
    /\ CanName(id)
    /\ inv' = [inv EXCEPT ![i] = postCancel(streams, id, revisionHeader)]
    /\ UNCHANGED <<streams, files>>

\* readStream has answered: fold, decide, and the in-memory append.
DecideAndAppend(i) ==
    /\ inv[i].pc = "read"
    /\ \E now \in Times :
          LET appendResult == handleCommandAppend(streams, inv[i], now) IN
          /\ streams' = appendResult.streams
          /\ inv' = [inv EXCEPT ![i] = afterAppend(@, appendResult)]
    /\ UNCHANGED files

\* The file store's appendToStream after the in-memory append has answered:
\* const streamResult = await inMemoryStore.readStream(streamId)
\* (the options, and the expected version in them, are not used again).
ReadForSave(i) ==
    /\ inv[i].pc = "appended"
    /\ inv' = [inv EXCEPT ![i] =
                  [@ EXCEPT !.pc = "saving",
                            !.expectedRevision = {},
                            !.streamResult = readStream(streams, inv[i].streamId)]]
    /\ UNCHANGED <<streams, files>>

\* fs.writeFile opens the file, truncating it.
WriteFileBegin(i) ==
    /\ inv[i].pc = "saving"
    /\ inv' = [inv EXCEPT ![i].pc = "writing"]
    /\ files' = [files EXCEPT ![inv[i].streamId] = TornFile]
    /\ UNCHANGED streams

\* Another invocation is between the open and the end of its write of the
\* same file.
OverlappingWrite(i) ==
    \E j \in InvocationIds \ {i} :
        inv[j].pc = "writing" /\ inv[j].streamId = inv[i].streamId

\* fs.writeFile has written the content in full.
WriteFileEnd(i) ==
    /\ inv[i].pc = "writing"
    /\ \E now \in Times :
          files' = [files EXCEPT ![inv[i].streamId] =
                       jsonData(inv[i].streamId, inv[i].streamResult, now)]
    /\ inv' = [inv EXCEPT ![i] = Succeeded(@)]
    /\ UNCHANGED streams

\* fs.writeFile has written its content while another write of the same file
\* was open: the bytes of both are in the file.
WriteFileEndMixed(i) ==
    /\ inv[i].pc = "writing"
    /\ OverlappingWrite(i)
    /\ files' = [files EXCEPT ![inv[i].streamId] = TornFile]
    /\ inv' = [inv EXCEPT ![i] = Succeeded(@)]
    /\ UNCHANGED streams

\* fs.writeFile fails to open the file: the file is as it was.
WriteFileOpenFail(i) ==
    /\ inv[i].pc = "saving"
    /\ inv' = [inv EXCEPT ![i] = WriteFailed(@)]
    /\ UNCHANGED <<streams, files>>

\* fs.writeFile fails after it has truncated the file.
WriteFileFail(i) ==
    /\ inv[i].pc = "writing"
    /\ files' = [files EXCEPT ![inv[i].streamId] = TornFile]
    /\ inv' = [inv EXCEPT ![i] = WriteFailed(@)]
    /\ UNCHANGED streams

\* ------------------------------------------------------ the specification

Init ==
    /\ streams = [id \in StreamIds |-> << >>]
    /\ files = [id \in StreamIds |-> NoFile]
    /\ inv = [i \in InvocationIds |-> Idle]

Next ==
    \/ \E i \in InvocationIds, id \in StreamIds, customerId \in CustomerIds :
          PostCarts(i, id, customerId)
    \/ \E i \in InvocationIds, id \in StreamIds, productId \in ProductIds,
          quantity \in Quantities, revisionHeader \in IfMatchHeaders :
          PostItems(i, id, productId, quantity, revisionHeader)
    \/ \E i \in InvocationIds : PriceResolved(i)
    \/ \E i \in InvocationIds, id \in StreamIds, productId \in ProductIds,
          quantity \in Quantities, revisionHeader \in IfMatchHeaders :
          DeleteItems(i, id, productId, quantity, revisionHeader)
    \/ \E i \in InvocationIds, id \in StreamIds, revisionHeader \in IfMatchHeaders :
          PostConfirm(i, id, revisionHeader)
    \/ \E i \in InvocationIds, id \in StreamIds, revisionHeader \in IfMatchHeaders :
          PostCancel(i, id, revisionHeader)
    \/ \E i \in InvocationIds : DecideAndAppend(i)
    \/ \E i \in InvocationIds : ReadForSave(i)
    \/ \E i \in InvocationIds : WriteFileBegin(i)
    \/ \E i \in InvocationIds : WriteFileEnd(i)
    \/ \E i \in InvocationIds : WriteFileEndMixed(i)
    \/ \E i \in InvocationIds : WriteFileOpenFail(i)
    \/ \E i \in InvocationIds : WriteFileFail(i)

\* Command invocations that overlap in time, in every interleaving.
Spec == Init /\ [][Next]_vars

\* The next step of invocation i after one of its awaits: the continuation
\* that the event loop runs once the awaited promise has settled.
Step(i) ==
    \/ PriceResolved(i)
    \/ DecideAndAppend(i)
    \/ ReadForSave(i)
    \/ WriteFileBegin(i)
    \/ WriteFileOpenFail(i)
    \/ WriteFileEnd(i)
    \/ WriteFileEndMixed(i)
    \/ WriteFileFail(i)

\* The same invocations under fair scheduling: every promise an invocation
\* awaits settles (fs.writeFile by resolving or by rejecting), and the event
\* loop runs the continuation of every settled promise.
FairSpec == Spec /\ \A i \in InvocationIds : WF_vars(Step(i))

\* ------------------------------------------- requests one after the other

\* The slot that handles the requests that do not overlap.
SerialSlot == CHOOSE i \in InvocationIds : TRUE

\* A request handled from the route's first line to its answer while nothing
\* else runs and the file write succeeds. `started` is the invocation at its
\* first await. The answer is kept with the expected revision of its request.
HandleToCompletion(started) ==
    LET atRead == IF started.pc = "price" THEN priceResolved(streams, started)
                  ELSE started
        id == atRead.streamId
    IN  /\ \A i \in InvocationIds : Free(i)
        /\ IF atRead.pc = "done"
           THEN /\ inv' = [inv EXCEPT ![SerialSlot] = atRead]
                /\ UNCHANGED <<streams, files>>
           ELSE \E now \in Times :
                   LET appendResult == handleCommandAppend(streams, atRead, now)
                       after == afterAppend(atRead, appendResult)
                   IN  /\ streams' = appendResult.streams
                       /\ IF after.pc = "appended"
                          THEN /\ files' = [files EXCEPT ![id] =
                                       jsonData(id, readStream(appendResult.streams, id), now)]
                               /\ inv' = [inv EXCEPT ![SerialSlot] =
                                             [Succeeded(after) EXCEPT
                                                !.expectedRevision = after.expectedRevision]]
                          ELSE /\ inv' = [inv EXCEPT ![SerialSlot] = after]
                               /\ UNCHANGED files

SerialPostCarts(shoppingCartId, customerId) ==
    /\ Unused(shoppingCartId)
    /\ HandleToCompletion(postCarts(streams, shoppingCartId, customerId))

SerialPostItems(id, productId, quantity, revisionHeader) ==
    /\ CanName(id)
    /\ HandleToCompletion(postItems(id, productId, quantity, revisionHeader))

SerialDeleteItems(id, productId, quantity, revisionHeader) ==
    /\ CanName(id)
    /\ HandleToCompletion(deleteItems(streams, id, productId, quantity, revisionHeader))

SerialPostConfirm(id, revisionHeader) ==
    /\ CanName(id)
    /\ HandleToCompletion(postConfirm(streams, id, revisionHeader))

SerialPostCancel(id, revisionHeader) ==
    /\ CanName(id)
    /\ HandleToCompletion(postCancel(streams, id, revisionHeader))

SerialNext ==
    \/ \E id \in StreamIds, customerId \in CustomerIds : SerialPostCarts(id, customerId)
    \/ \E id \in StreamIds, productId \in SerialProductIds,
          quantity \in SerialQuantities, revisionHeader \in IfMatchHeaders :
          SerialPostItems(id, productId, quantity, revisionHeader)
    \/ \E id \in StreamIds, productId \in SerialProductIds,
          quantity \in SerialQuantities, revisionHeader \in IfMatchHeaders :
          SerialDeleteItems(id, productId, quantity, revisionHeader)
    \/ \E id \in StreamIds, revisionHeader \in IfMatchHeaders :
          SerialPostConfirm(id, revisionHeader)
    \/ \E id \in StreamIds, revisionHeader \in IfMatchHeaders :
          SerialPostCancel(id, revisionHeader)

\* Commands handled one at a time, over the wider range of products and
\* quantities.
SerialSpec == Init /\ [][SerialNext]_vars

\* ------------------------------------------------------------ the query

\* res.json of the cart state: the Date fields as their ISO strings.
jsonOfCart(currentState) == jsonOfData(currentState)

\* A route that answers 404 for a cart that holds no items.
getCartWithItems(all, id) ==
    LET streamResult == readStream(all, id)
        currentState == Fold(streamResult.events)
    IN  IF Len(currentState.items) = 0
        THEN [Idle EXCEPT !.pc = "done", !.streamId = id, !.status = 404,
                          !.error = "Cart not found"]
        ELSE ("cart" :> jsonOfCart(currentState))
             @@ [Idle EXCEPT !.pc = "done", !.streamId = id, !.status = 200,
                    !.revision = toString(streamResult.currentStreamVersion)]

\* GET /carts/:id: the answer is 404 for a stream without events, and the
\* folded state with the stream's version as revision otherwise.
getCart(all, id) ==
    LET streamResult == readStream(all, id)
        currentState == Fold(streamResult.events)
    IN  IF Len(streamResult.events) = 0
        THEN [Idle EXCEPT !.pc = "done", !.streamId = id, !.status = 404,
                          !.error = "Cart not found"]
        ELSE ("cart" :> jsonOfCart(currentState))
             @@ [Idle EXCEPT !.pc = "done", !.streamId = id, !.status = 200,
                    !.revision = toString(streamResult.currentStreamVersion)]

GetCart(id) ==
    /\ \A i \in InvocationIds : Free(i)
    /\ inv' = [inv EXCEPT ![SerialSlot] = getCart(streams, id)]
    /\ UNCHANGED <<streams, files>>

QueryNext ==
    \/ SerialNext
    \/ \E id \in StreamIds : GetCart(id)

\* Commands and queries handled one at a time.
QuerySpec == Init /\ [][QueryNext]_vars

\* ------------------------------------------------ restart and the load

\* The slot of the request in the specification of the restart, and the slot
\* that stands for loadExistingData, which the store's constructor starts and
\* does not await.
CommandSlot == SerialSlot

LoaderSlot == CHOOSE i \in InvocationIds : i # CommandSlot

\* jsonData.events.map(event => ({ type: event.type, data: event.data }))
eventsOfFile(file) ==
    [k \in 1..Len(file.events) |->
        [type |-> file.events[k].type, data |-> file.events[k].data]]

\* The process stops, or crashes, and starts again: its requests are gone,
\* getInMemoryEventStore() gives an empty store, and loadExistingData is
\* called: const files = await fs.readdir(dataDirectory) lists the directory
\* as the old process left it, the constructor issuing the listing before
\* the server can take a request.
Restart ==
    /\ streams' = [id \in StreamIds |-> << >>]
    /\ inv' = [i \in InvocationIds |->
                 IF i = LoaderSlot
                 THEN LoadNext({id \in StreamIds : files[id].exists})
                 ELSE Idle]
    /\ UNCHANGED files

\* The loader after fs.readFile and JSON.parse of one file: a file that does
\* not parse is logged and skipped, as is one without events.
loadedFile(loader, id) ==
    IF ~files[id].complete
    THEN [LoadNext(loader.remaining \ {id}) EXCEPT !.error = "SyntaxError"]
    ELSE IF Len(files[id].events) = 0
    THEN LoadNext(loader.remaining \ {id})
    ELSE [Idle EXCEPT !.pc = "loadRead",
                      !.streamId = files[id].streamId,
                      !.readResult = [events |-> eventsOfFile(files[id]),
                                      currentStreamVersion |-> 0],
                      !.remaining = loader.remaining \ {id}]

\* const data = await fs.readFile(filePath, 'utf-8'), for the next file of
\* the directory listing.
LoadReadFile ==
    /\ inv[LoaderSlot].pc = "loadNext"
    /\ \E id \in inv[LoaderSlot].remaining :
          inv' = [inv EXCEPT ![LoaderSlot] = loadedFile(@, id)]
    /\ UNCHANGED <<streams, files>>

\* await eventStore.appendToStream(streamId, events): the file store's
\* appendToStream, without an expected version, up to the first await inside
\* the in-memory append.
LoadAppend ==
    /\ inv[LoaderSlot].pc = "loadRead"
    /\ LET loader == inv[LoaderSlot]
           appendResult == originalAppendToStream(streams, loader.streamId,
                                                  loader.readResult.events, {})
       IN  /\ streams' = appendResult.streams
           /\ inv' = [inv EXCEPT ![LoaderSlot] =
                         [Appended(loader, appendResult) EXCEPT
                             !.status = 0,
                             !.remaining = loader.remaining]]
    /\ UNCHANGED files

\* Events of the stream's file that the load has still to append.
Unloaded(id) ==
    IF inv[LoaderSlot].pc = "loadNext" /\ id \in inv[LoaderSlot].remaining
       /\ files[id].complete
    THEN Len(files[id].events)
    ELSE IF inv[LoaderSlot].pc = "loadRead" /\ inv[LoaderSlot].streamId = id
    THEN Len(inv[LoaderSlot].readResult.events)
    ELSE 0

\* Bound of the model: a request is taken only while the stream, with what
\* the load will add to it, has room for its event.
Room(id) == Len(streams[id]) + Unloaded(id) < MaxEvents

\* The steps of the process around a restart: one request at a time, at any
\* point of the load.
LoadSpecRequest ==
    \/ \E id \in StreamIds, c \in CustomerIds : PostCarts(CommandSlot, id, c)
    \/ \E id \in StreamIds, p \in ProductIds, q \in Quantities, h \in IfMatchHeaders :
          Room(id) /\ PostItems(CommandSlot, id, p, q, h)
    \/ PriceResolved(CommandSlot)
    \/ \E id \in StreamIds, p \in ProductIds, q \in Quantities, h \in IfMatchHeaders :
          Room(id) /\ DeleteItems(CommandSlot, id, p, q, h)
    \/ \E id \in StreamIds, h \in IfMatchHeaders :
          Room(id) /\ PostConfirm(CommandSlot, id, h)
    \/ \E id \in StreamIds, h \in IfMatchHeaders :
          Room(id) /\ PostCancel(CommandSlot, id, h)
    \/ DecideAndAppend(CommandSlot)

LoadSpecNext ==
    \/ LoadSpecRequest
    \/ \E i \in InvocationIds : ReadForSave(i)
    \/ \E i \in InvocationIds : WriteFileBegin(i)
    \/ \E i \in InvocationIds : WriteFileEnd(i)
    \/ \E i \in InvocationIds : WriteFileEndMixed(i)
    \/ \E i \in InvocationIds : WriteFileOpenFail(i)
    \/ \E i \in InvocationIds : WriteFileFail(i)
    \/ Restart
    \/ LoadReadFile
    \/ LoadAppend

LoadSpec == Init /\ [][LoadSpecNext]_vars

\* ------------------------------------------------- the decider by itself

\* Quantities and unit prices of the product items given to the decider.
DeciderQuantities == {-1, 1, 2}

DeciderPrices == {10, 20}

DeciderProductIds == {"p1", "p2"}

\* The commands given to decide for a cart.
DeciderCommands(id) ==
    {OpenShoppingCartCommand(id, c) : c \in CustomerIds}
    \cup {AddProductItemCommand(id, p, q, u) :
            p \in DeciderProductIds, q \in DeciderQuantities, u \in DeciderPrices}
    \cup {RemoveProductItemCommand(id, p, q) :
            p \in DeciderProductIds, q \in DeciderQuantities}
    \cup {ConfirmShoppingCartCommand(id), CancelShoppingCartCommand(id)}

\* What is kept of a command given to decide: the command, and the error
\* thrown if decide rejected it.
decided(id, command, outcome) ==
    [Idle EXCEPT !.pc = "done",
                 !.streamId = id,
                 !.command = command,
                 !.error = IF IsEvent(outcome) THEN "" ELSE outcome.type]

\* given(events).when(command, { now }): the state is the fold of the events
\* so far, decide is applied to it, and an event it returns joins the events.
Decide(id, command, now) ==
    LET outcome == decide(command, Fold(streams[id]), now) IN
    /\ IsEvent(outcome) => Len(streams[id]) < MaxEvents
    /\ streams' = IF IsEvent(outcome)
                  THEN originalAppendToStream(streams, id, <<outcome>>, {}).streams
                  ELSE streams
    /\ inv' = [inv EXCEPT ![SerialSlot] = decided(id, command, outcome)]
    /\ UNCHANGED files

DeciderNext ==
    \E id \in StreamIds, now \in Times :
        \E command \in DeciderCommands(id) : Decide(id, command, now)

DeciderSpec == Init /\ [][DeciderNext]_vars

\* ------------------------------------------------ carts side by side

\* Cart identifiers of the requests on more than one cart.
TwoStreamIds == {"c1", "c2"}

TwoStreamInit ==
    /\ streams = [id \in TwoStreamIds |-> << >>]
    /\ files = [id \in TwoStreamIds |-> NoFile]
    /\ inv = [i \in InvocationIds |-> Idle]

\* Bound of the model: a request is taken only while the store, with the
\* events of the requests that have not yet reached the append, holds fewer
\* than MaxEvents events.
StoreHasRoom ==
    getAllEventsCount(streams)
        + Cardinality({i \in InvocationIds : inv[i].pc \in {"price", "read"}})
    < MaxEvents

\* The cart each request slot works on: the two slots on different carts.
CartOf(i) == IF i = SerialSlot THEN "c1" ELSE "c2"

\* A request of slot i on its cart.
TwoStreamRequest(i) ==
    /\ StoreHasRoom
    /\ \/ \E c \in CustomerIds : PostCarts(i, CartOf(i), c)
       \/ \E p \in ProductIds, q \in Quantities, h \in IfMatchHeaders :
             PostItems(i, CartOf(i), p, q, h)
       \/ \E p \in ProductIds, q \in Quantities, h \in IfMatchHeaders :
             DeleteItems(i, CartOf(i), p, q, h)
       \/ \E h \in IfMatchHeaders : PostConfirm(i, CartOf(i), h)
       \/ \E h \in IfMatchHeaders : PostCancel(i, CartOf(i), h)

TwoStreamNext ==
    \/ \E i \in InvocationIds : TwoStreamRequest(i)
    \/ \E i \in InvocationIds : PriceResolved(i)
    \/ \E i \in InvocationIds : DecideAndAppend(i)
    \/ \E i \in InvocationIds : ReadForSave(i)
    \/ \E i \in InvocationIds : WriteFileBegin(i)
    \/ \E i \in InvocationIds : WriteFileEnd(i)
    \/ \E i \in InvocationIds : WriteFileOpenFail(i)
    \/ \E i \in InvocationIds : WriteFileFail(i)

\* Command invocations on two carts that overlap in time, in every
\* interleaving.
TwoStreamSpec == TwoStreamInit /\ [][TwoStreamNext]_vars

\* ------------------------------------------- the per-customer summary

\* document: CustomerShoppingSummary | null -- the null document.
NoDocument == [null |-> TRUE]

\* document.carts.findIndex(cart => cart.id === event.shoppingCartId),
\* 1-based; 0 when none matches (the code's -1).
findCartIndex(carts, shoppingCartId) ==
    IF \E i \in 1..Len(carts) : carts[i].id = shoppingCartId
    THEN CHOOSE i \in 1..Len(carts) :
            /\ carts[i].id = shoppingCartId
            /\ \A j \in 1..(i - 1) : carts[j].id # shoppingCartId
    ELSE 0

\* A fold that, on a confirmation, marks the cart and leaves the counters
\* and the amount spent as they were.
summaryMarkingConfirmed(document, event, streamId) ==
    CASE event.type = "ShoppingCartOpened" ->
            LET existing ==
                    IF document = NoDocument
                    THEN [customerId |-> event.data.customerId,
                          totalCarts |-> 0,
                          activeCartsCount |-> 0,
                          confirmedCartsCount |-> 0,
                          cancelledCartsCount |-> 0,
                          totalSpent |-> 0,
                          lastActivityAt |-> event.data.openedAt,
                          carts |-> << >>]
                    ELSE document
            IN  [existing EXCEPT
                    !.totalCarts = @ + 1,
                    !.activeCartsCount = @ + 1,
                    !.lastActivityAt = event.data.openedAt,
                    !.carts = Append(@, [id |-> event.data.shoppingCartId,
                                         status |-> "Opened",
                                         totalAmount |-> 0,
                                         openedAt |-> event.data.openedAt])]
      [] event.type = "ProductItemAddedToShoppingCart" ->
            IF document = NoDocument THEN NoDocument
            ELSE LET cartIndex == findCartIndex(document.carts, event.data.shoppingCartId) IN
                 IF cartIndex = 0 THEN document
                 ELSE [document EXCEPT
                         !.carts[cartIndex].totalAmount =
                             @ + event.data.productItem.unitPrice
                                   * event.data.productItem.quantity,
                         !.lastActivityAt = event.data.addedAt]
      [] event.type = "ProductItemRemovedFromShoppingCart" ->
            IF document = NoDocument THEN NoDocument
            ELSE [document EXCEPT !.lastActivityAt = event.data.removedAt]
      [] event.type = "ShoppingCartConfirmed" ->
            IF document = NoDocument THEN NoDocument
            ELSE LET cartIndex == findCartIndex(document.carts, event.data.shoppingCartId) IN
                 IF cartIndex = 0 THEN document
                 ELSE [document EXCEPT
                         !.carts[cartIndex].status = "Confirmed",
                         !.lastActivityAt = event.data.confirmedAt]
      [] event.type = "ShoppingCartCancelled" ->
            IF document = NoDocument THEN NoDocument
            ELSE LET cartIndex == findCartIndex(document.carts, event.data.shoppingCartId) IN
                 IF cartIndex = 0 THEN document
                 ELSE [document EXCEPT
                         !.activeCartsCount = @ - 1,
                         !.cancelledCartsCount = @ + 1,
                         !.carts[cartIndex].status = "Cancelled",
                         !.lastActivityAt = event.data.cancelledAt]
      [] OTHER -> document

\* A fold that, on a confirmation, moves the cart between the counters and
\* leaves the amount spent as it was.
summaryWithoutSpending(document, event, streamId) ==
    CASE event.type = "ShoppingCartOpened" ->
            LET existing ==
                    IF document = NoDocument
                    THEN [customerId |-> event.data.customerId,
                          totalCarts |-> 0,
                          activeCartsCount |-> 0,
                          confirmedCartsCount |-> 0,
                          cancelledCartsCount |-> 0,
                          totalSpent |-> 0,
                          lastActivityAt |-> event.data.openedAt,
                          carts |-> << >>]
                    ELSE document
            IN  [existing EXCEPT
                    !.totalCarts = @ + 1,
                    !.activeCartsCount = @ + 1,
                    !.lastActivityAt = event.data.openedAt,
                    !.carts = Append(@, [id |-> event.data.shoppingCartId,
                                         status |-> "Opened",
                                         totalAmount |-> 0,
                                         openedAt |-> event.data.openedAt])]
      [] event.type = "ProductItemAddedToShoppingCart" ->
            IF document = NoDocument THEN NoDocument
            ELSE LET cartIndex == findCartIndex(document.carts, event.data.shoppingCartId) IN
                 IF cartIndex = 0 THEN document
                 ELSE [document EXCEPT
                         !.carts[cartIndex].totalAmount =
                             @ + event.data.productItem.unitPrice
                                   * event.data.productItem.quantity,
                         !.lastActivityAt = event.data.addedAt]
      [] event.type = "ProductItemRemovedFromShoppingCart" ->
            IF document = NoDocument THEN NoDocument
            ELSE [document EXCEPT !.lastActivityAt = event.data.removedAt]
      [] event.type = "ShoppingCartConfirmed" ->
            IF document = NoDocument THEN NoDocument
            ELSE LET cartIndex == findCartIndex(document.carts, event.data.shoppingCartId) IN
                 IF cartIndex = 0 THEN document
                 ELSE [document EXCEPT
                         !.activeCartsCount = @ - 1,
                         !.confirmedCartsCount = @ + 1,
                         !.carts[cartIndex].status = "Confirmed",
                         !.lastActivityAt = event.data.confirmedAt]
      [] event.type = "ShoppingCartCancelled" ->
            IF document = NoDocument THEN NoDocument
            ELSE LET cartIndex == findCartIndex(document.carts, event.data.shoppingCartId) IN
                 IF cartIndex = 0 THEN document
                 ELSE [document EXCEPT
                         !.activeCartsCount = @ - 1,
                         !.cancelledCartsCount = @ + 1,
                         !.carts[cartIndex].status = "Cancelled",
                         !.lastActivityAt = event.data.cancelledAt]
      [] OTHER -> document

evolveCustomerShoppingSummary(document, event, streamId) ==
    CASE event.type = "ShoppingCartOpened" ->
            LET existing ==
                    IF document = NoDocument
                    THEN [customerId |-> event.data.customerId,
                          totalCarts |-> 0,
                          activeCartsCount |-> 0,
                          confirmedCartsCount |-> 0,
                          cancelledCartsCount |-> 0,
                          totalSpent |-> 0,
                          lastActivityAt |-> event.data.openedAt,
                          carts |-> << >>]
                    ELSE document
            IN  [existing EXCEPT
                    !.totalCarts = @ + 1,
                    !.activeCartsCount = @ + 1,
                    !.lastActivityAt = event.data.openedAt,
                    !.carts = Append(@, [id |-> event.data.shoppingCartId,
                                         status |-> "Opened",
                                         totalAmount |-> 0,
                                         openedAt |-> event.data.openedAt])]
      [] event.type = "ProductItemAddedToShoppingCart" ->
            IF document = NoDocument THEN NoDocument
            ELSE LET cartIndex == findCartIndex(document.carts, event.data.shoppingCartId) IN
                 IF cartIndex = 0 THEN document
                 ELSE [document EXCEPT
                         !.carts[cartIndex].totalAmount =
                             @ + event.data.productItem.unitPrice
                                   * event.data.productItem.quantity,
                         !.lastActivityAt = event.data.addedAt]
      [] event.type = "ProductItemRemovedFromShoppingCart" ->
            IF document = NoDocument THEN NoDocument
            ELSE [document EXCEPT !.lastActivityAt = event.data.removedAt]
      [] event.type = "ShoppingCartConfirmed" ->
            IF document = NoDocument THEN NoDocument
            ELSE LET cartIndex == findCartIndex(document.carts, event.data.shoppingCartId) IN
                 IF cartIndex = 0 THEN document
                 ELSE [document EXCEPT
                         !.activeCartsCount = @ - 1,
                         !.confirmedCartsCount = @ + 1,
                         !.totalSpent = @ + document.carts[cartIndex].totalAmount,
                         !.carts[cartIndex].status = "Confirmed",
                         !.lastActivityAt = event.data.confirmedAt]
      [] event.type = "ShoppingCartCancelled" ->
            IF document = NoDocument THEN NoDocument
            ELSE LET cartIndex == findCartIndex(document.carts, event.data.shoppingCartId) IN
                 IF cartIndex = 0 THEN document
                 ELSE [document EXCEPT
                         !.activeCartsCount = @ - 1,
                         !.cancelledCartsCount = @ + 1,
                         !.carts[cartIndex].status = "Cancelled",
                         !.lastActivityAt = event.data.cancelledAt]
      [] OTHER -> document

\* The events of the whole store in the order of their global position.
EventsInOrder(all) ==
    [g \in 1..getAllEventsCount(all) |->
        CHOOSE e \in UNION {{all[id][k] : k \in 1..Len(all[id])} : id \in DOMAIN all} :
            e.metadata.globalPosition = g]

\* The document of a customer that has been given the events one by one,
\* starting from no document.
RECURSIVE FoldSummary(_)
FoldSummary(events) ==
    IF Len(events) = 0
    THEN NoDocument
    ELSE LET event == events[Len(events)] IN
         evolveCustomerShoppingSummary(
             FoldSummary(SubSeq(events, 1, Len(events) - 1)),
             event, event.metadata.streamName)

\* Values of the clock at the moments the events are decided.
ClockTimes == {[date |-> 1], [date |-> 2]}

\* Quantities of the product items of the commands behind the summary.
SummaryQuantities == {1, 2}

\* The commands on a cart whose events the summary is given: products at
\* their catalog price.
SummaryCommands(id) ==
    {OpenShoppingCartCommand(id, c) : c \in CustomerIds}
    \cup {AddProductItemCommand(id, p, q, productCatalog[p]) :
            p \in DOMAIN productCatalog, q \in SummaryQuantities}
    \cup {RemoveProductItemCommand(id, p, q) :
            p \in DOMAIN productCatalog, q \in Quantities}
    \cup {ConfirmShoppingCartCommand(id), CancelShoppingCartCommand(id)}

\* A command on one of the carts is decided, at some time of the clock, and
\* its event is stored.
SummaryNext ==
    \E id \in TwoStreamIds, now \in ClockTimes :
        \E command \in SummaryCommands(id) :
            /\ StoreHasRoom
            /\ Decide(id, command, now)

\* The events of two carts of a customer, as the decider gives them.
SummarySpec == TwoStreamInit /\ [][SummaryNext]_vars

\* The event variants, for a cart: what the projections can be given.
EventVariants(id) ==
    {[type |-> "ShoppingCartOpened",
      data |-> [shoppingCartId |-> id, customerId |-> c, openedAt |-> now]] :
        c \in CustomerIds, now \in ClockTimes}
    \cup {[type |-> "ProductItemAddedToShoppingCart",
           data |-> [shoppingCartId |-> id,
                     productItem |-> [productId |-> p, quantity |-> q,
                                      unitPrice |-> productCatalog[p]],
                     addedAt |-> now]] :
            p \in DOMAIN productCatalog, q \in SummaryQuantities, now \in ClockTimes}
    \cup {[type |-> "ProductItemRemovedFromShoppingCart",
           data |-> [shoppingCartId |-> id,
                     productItem |-> [productId |-> p, quantity |-> q],
                     removedAt |-> now]] :
            p \in DOMAIN productCatalog, q \in SummaryQuantities, now \in ClockTimes}
    \cup {[type |-> "ShoppingCartConfirmed",
           data |-> [shoppingCartId |-> id, confirmedAt |-> now]] : now \in ClockTimes}
    \cup {[type |-> "ShoppingCartCancelled",
           data |-> [shoppingCartId |-> id, cancelledAt |-> now]] : now \in ClockTimes}

\* ------------------------------------------- the single-cart summary

\* A summary that counts the lines of the cart as its items.
calculateTotalsByLine(items) ==
    LET RECURSIVE reduce(_)
        reduce(n) ==
            IF n = 0
            THEN [totalAmount |-> 0, totalItemsCount |-> 0]
            ELSE LET totals == reduce(n - 1) IN
                 [totalAmount |-> totals.totalAmount
                                     + items[n].unitPrice * items[n].quantity,
                  totalItemsCount |-> totals.totalItemsCount + 1]
    IN  reduce(Len(items))

\* items.reduce(...): the amount and the number of items, line by line from
\* { totalAmount: 0, totalItemsCount: 0 }.
calculateTotals(items) ==
    LET RECURSIVE reduce(_)
        reduce(n) ==
            IF n = 0
            THEN [totalAmount |-> 0, totalItemsCount |-> 0]
            ELSE LET totals == reduce(n - 1) IN
                 [totalAmount |-> totals.totalAmount
                                     + items[n].unitPrice * items[n].quantity,
                  totalItemsCount |-> totals.totalItemsCount + items[n].quantity]
    IN  reduce(Len(items))

\* A summary that gives a product added again the quantity of the last
\* addition.
summaryReplaceProductItems(items, productItem) ==
    LET existingIndex == findIndex(items, productItem.productId) IN
    IF existingIndex > 0
    THEN [items EXCEPT ![existingIndex].quantity = productItem.quantity]
    ELSE Append(items, productItem)

\* mergeProductItems of the summary projection (its own copy).
summaryMergeProductItems(items, productItem) ==
    LET existingIndex == findIndex(items, productItem.productId) IN
    IF existingIndex > 0
    THEN [items EXCEPT ![existingIndex].quantity = @ + productItem.quantity]
    ELSE Append(items, productItem)

\* removeProductItems of the summary projection (its own copy).
summaryRemoveProductItems(items, productItem) ==
    LET existingIndex == findIndex(items, productItem.productId) IN
    IF existingIndex = 0
    THEN items
    ELSE LET newQuantity == items[existingIndex].quantity - productItem.quantity IN
         IF newQuantity <= 0
         THEN SubSeq(items, 1, existingIndex - 1)
                 \o SubSeq(items, existingIndex + 1, Len(items))
         ELSE [items EXCEPT ![existingIndex].quantity = newQuantity]

\* { ...document, items: updatedItems, ...totals }
withItems(document, updatedItems) ==
    LET totals == calculateTotals(updatedItems) IN
    [document EXCEPT !.items = updatedItems,
                     !.totalAmount = totals.totalAmount,
                     !.totalItemsCount = totals.totalItemsCount]

\* A fold that starts the document of a cart at its first product item when
\* it has seen no Opened event.
summaryStartedByItem(document, event) ==
    CASE event.type = "ShoppingCartOpened" ->
            [id |-> event.data.shoppingCartId,
             customerId |-> event.data.customerId,
             status |-> "Opened",
             items |-> << >>,
             totalAmount |-> 0,
             totalItemsCount |-> 0,
             openedAt |-> event.data.openedAt,
             confirmedAt |-> NoDate,
             cancelledAt |-> NoDate]
      [] event.type = "ProductItemAddedToShoppingCart" ->
            withItems(IF document = NoDocument
                      THEN [id |-> event.data.shoppingCartId,
                            customerId |-> "",
                            status |-> "Opened",
                            items |-> << >>,
                            totalAmount |-> 0,
                            totalItemsCount |-> 0,
                            openedAt |-> event.data.addedAt,
                            confirmedAt |-> NoDate,
                            cancelledAt |-> NoDate]
                      ELSE document,
                      <<event.data.productItem>>)
      [] OTHER -> document

evolveShoppingCartSummary(document, event) ==
    CASE event.type = "ShoppingCartOpened" ->
            [id |-> event.data.shoppingCartId,
             customerId |-> event.data.customerId,
             status |-> "Opened",
             items |-> << >>,
             totalAmount |-> 0,
             totalItemsCount |-> 0,
             openedAt |-> event.data.openedAt,
             confirmedAt |-> NoDate,
             cancelledAt |-> NoDate]
      [] event.type = "ProductItemAddedToShoppingCart" ->
            IF document = NoDocument THEN NoDocument
            ELSE withItems(document,
                     summaryMergeProductItems(document.items, event.data.productItem))
      [] event.type = "ProductItemRemovedFromShoppingCart" ->
            IF document = NoDocument THEN NoDocument
            ELSE withItems(document,
                     summaryRemoveProductItems(document.items, event.data.productItem))
      [] event.type = "ShoppingCartConfirmed" ->
            IF document = NoDocument THEN NoDocument
            ELSE [document EXCEPT !.status = "Confirmed",
                                  !.confirmedAt = event.data.confirmedAt]
      [] event.type = "ShoppingCartCancelled" ->
            IF document = NoDocument THEN NoDocument
            ELSE [document EXCEPT !.status = "Cancelled",
                                  !.cancelledAt = event.data.cancelledAt]
      [] OTHER -> document

\* The summary of a cart that has been given the events one by one, starting
\* from no document.
RECURSIVE FoldCartSummary(_)
FoldCartSummary(events) ==
    IF Len(events) = 0
    THEN NoDocument
    ELSE evolveShoppingCartSummary(
             FoldCartSummary(SubSeq(events, 1, Len(events) - 1)),
             events[Len(events)])

\* --------------------------------------------------- the fold by itself

\* An event of a type that is none of the five variants.
UnknownEvent(id) == [type |-> "ShoppingCartArchived", data |-> [shoppingCartId |-> id]]

\* given(events): the cart's stream is given one more event, of any variant
\* or of an unknown type, whatever the events before it.
GivenEvent(id, event) ==
    /\ Len(streams[id]) < MaxEvents
    /\ streams' = originalAppendToStream(streams, id, <<event>>, {}).streams
    /\ UNCHANGED <<files, inv>>

EvolveNext ==
    \E id \in StreamIds :
        \E event \in EventVariants(id) \cup {UnknownEvent(id)} : GivenEvent(id, event)

\* Every sequence of events, folded by evolve.
EvolveSpec == Init /\ [][EvolveNext]_vars

\* ------------------------------------------------------ the list of carts

\* const cartSummary = { ... }: the entry of a parsed file before its events
\* are read. null is the empty set, a value v the set {v}.
newCartSummary(parsed) ==
    [id |-> parsed.streamId,
     lastUpdated |-> parsed.lastUpdated,
     totalEvents |-> Len(parsed.events),
     status |-> "Opened",
     items |-> << >>,
     customerId |-> {},
     openedAt |-> {},
     confirmedAt |-> {},
     cancelledAt |-> {}]

\* cartSummary.items.filter(item => item.productId !== productId)
RECURSIVE withoutProduct(_, _)
withoutProduct(items, productId) ==
    IF Len(items) = 0
    THEN << >>
    ELSE LET rest == withoutProduct(Tail(items), productId) IN
         IF Head(items).productId # productId THEN <<Head(items)>> \o rest ELSE rest

\* The body of for (const event of jsonData.events) switch (event.type). The
\* line of an item carries the name the event gives the product as well; the
\* events of the model give none.
summaryAfter(cartSummary, event) ==
    CASE event.type = "ShoppingCartOpened" ->
            [cartSummary EXCEPT !.customerId = {event.data.customerId},
                                !.openedAt = {event.data.openedAt},
                                !.status = "Opened"]
      [] event.type = "ProductItemAddedToShoppingCart" ->
            LET productItem == event.data.productItem
                existingItem == findIndex(cartSummary.items, productItem.productId)
            IN  IF existingItem > 0
                THEN [cartSummary EXCEPT
                        !.items[existingItem].quantity = @ + productItem.quantity]
                ELSE [cartSummary EXCEPT
                        !.items = Append(@, [productId |-> productItem.productId,
                                             quantity |-> productItem.quantity,
                                             price |-> productItem.unitPrice])]
      [] event.type = "ProductItemRemovedFromShoppingCart" ->
            LET productItem == event.data.productItem
                itemToRemove == findIndex(cartSummary.items, productItem.productId)
            IN  IF itemToRemove = 0
                THEN cartSummary
                ELSE IF cartSummary.items[itemToRemove].quantity - productItem.quantity <= 0
                THEN [cartSummary EXCEPT
                        !.items = withoutProduct(@, productItem.productId)]
                ELSE [cartSummary EXCEPT
                        !.items[itemToRemove].quantity = @ - productItem.quantity]
      [] event.type = "ShoppingCartConfirmed" ->
            [cartSummary EXCEPT !.status = "Confirmed",
                                !.confirmedAt = {event.data.confirmedAt}]
      [] event.type = "ShoppingCartCancelled" ->
            [cartSummary EXCEPT !.status = "Cancelled",
                                !.cancelledAt = {event.data.cancelledAt}]
      [] OTHER -> cartSummary

\* for (const event of jsonData.events) { ... }
RECURSIVE summaryOfEvents(_, _)
summaryOfEvents(cartSummary, events) ==
    IF Len(events) = 0
    THEN cartSummary
    ELSE summaryOfEvents(summaryAfter(cartSummary, Head(events)), Tail(events))

\* new Date(text).getTime(): the instant the ISO string denotes.
getTime(text) == text.iso

\* carts.sort((a, b) => getTime(b.lastUpdated) - getTime(a.lastUpdated)):
\* newest first, entries of the same instant in the order they had.
RECURSIVE sortCarts(_)
sortCarts(carts) ==
    IF Len(carts) <= 1
    THEN carts
    ELSE LET last == carts[Len(carts)]
             sorted == sortCarts(SubSeq(carts, 1, Len(carts) - 1))
             ahead == {k \in 1..Len(sorted) :
                          getTime(sorted[k].lastUpdated) >= getTime(last.lastUpdated)}
             n == Cardinality(ahead)
         IN  SubSeq(sorted, 1, n) \o <<last>> \o SubSeq(sorted, n + 1, Len(sorted))

\* The for loop over the listed files: a file that does not parse is logged
\* and skipped, every other one gives an entry.
RECURSIVE cartsOfFiles(_, _)
cartsOfFiles(dir, listing) ==
    IF Len(listing) = 0
    THEN << >>
    ELSE LET file == dir[Head(listing)]
             rest == cartsOfFiles(dir, Tail(listing))
         IN  IF file.complete
             THEN <<summaryOfEvents(newCartSummary(file), file.events)>> \o rest
             ELSE rest

\* getAllCarts(), for the order in which readdir lists the files.
getAllCarts(dir, listing) == sortCarts(cartsOfFiles(dir, listing))

\* fs.readdir(dataDirectory): the .json files of the directory, in an order
\* of the file system's choosing.
Listings(dir) ==
    LET names == {id \in DOMAIN dir : dir[id].exists} IN
    {listing \in [1..Cardinality(names) -> names] :
        \A j, k \in DOMAIN listing : j # k => listing[j] # listing[k]}

\* GET /carts
GetCarts(listing) ==
    /\ \A i \in InvocationIds : Free(i)
    /\ inv' = [inv EXCEPT ![SerialSlot] =
                  ("carts" :> getAllCarts(files, listing))
                  @@ [Idle EXCEPT !.pc = "done", !.status = 200]]
    /\ UNCHANGED <<streams, files>>

\* A request on one of two carts, or for the list of carts, handled while
\* nothing else runs.
CartsNext ==
    \/ /\ StoreHasRoom
       /\ \/ \E id \in TwoStreamIds, customerId \in CustomerIds :
                SerialPostCarts(id, customerId)
          \/ \E id \in TwoStreamIds, productId \in ProductIds,
                quantity \in SummaryQuantities, revisionHeader \in IfMatchHeaders :
                SerialPostItems(id, productId, quantity, revisionHeader)
          \/ \E id \in TwoStreamIds, productId \in ProductIds,
                quantity \in SummaryQuantities, revisionHeader \in IfMatchHeaders :
                SerialDeleteItems(id, productId, quantity, revisionHeader)
          \/ \E id \in TwoStreamIds, revisionHeader \in IfMatchHeaders :
                SerialPostConfirm(id, revisionHeader)
          \/ \E id \in TwoStreamIds, revisionHeader \in IfMatchHeaders :
                SerialPostCancel(id, revisionHeader)
    \/ \E listing \in Listings(files) : GetCarts(listing)

\* Commands on two carts and the list of carts, one request at a time.
CartsSpec == TwoStreamInit /\ [][CartsNext]_vars

\* ================================================================ claims

\* Invocation i takes the step that follows its readStream: fold, decide and
\* the store's append.
AppendStep(i) == inv[i].pc = "read" /\ inv'[i].pc # "read"

\* decide accepts the command of invocation i on the state it has read, so
\* the invocation passes its event to the store's append.
PassesToAppend(i) ==
    /\ inv[i].pc = "read"
    /\ \A now \in Times :
          IsEvent(decide(inv[i].command, Fold(inv[i].readResult.events), now))

\* The stream is the old one with exactly one event added at its end.
OneEventAppended(id) ==
    /\ Len(streams'[id]) = Len(streams[id]) + 1
    /\ SubSeq(streams'[id], 1, Len(streams[id])) = streams[id]

\* Two invocations on the same stream are both about to append with the same
\* expected version, which is the stream's current version.
Racing(i, j) ==
    /\ i # j
    /\ PassesToAppend(i) /\ PassesToAppend(j)
    /\ inv[i].streamId = inv[j].streamId
    /\ inv[i].expectedRevision = {Len(streams[inv[i].streamId])}
    /\ inv[j].expectedRevision = inv[i].expectedRevision

\* Of two racing invocations the first to append wins: its event alone is
\* added and it gets the version advanced by 1.
C1_WinnerStep ==
    \A i, j \in InvocationIds :
        Racing(i, j) /\ AppendStep(i) =>
            /\ inv'[i].pc = "appended"
            /\ OneEventAppended(inv[i].streamId)
            /\ inv'[i].nextExpectedStreamVersion = Len(streams[inv[i].streamId]) + 1
            /\ inv'[j] = inv[j]

\* An invocation that appends with an expected version the stream has
\* already moved past fails with the version conflict, against the stream's
\* current version, and appends nothing.
C1_LoserStep ==
    \A j \in InvocationIds :
        /\ AppendStep(j)
        /\ PassesToAppend(j)
        /\ \E v \in inv[j].expectedRevision : v < Len(streams[inv[j].streamId])
        => /\ inv'[j].pc = "done"
           /\ inv'[j].error = "ExpectedVersionConflictError"
           /\ inv'[j].current = Len(streams[inv[j].streamId])
           /\ UNCHANGED <<streams, files>>

\* The version of a stream never goes back.
VersionNeverDecreases ==
    \A id \in StreamIds : Len(streams'[id]) >= Len(streams[id])

\* C1: when two invocations on one stream both pass the same expected
\* version, equal to the stream's current version, to append, then whichever
\* appends first succeeds and advances the version by 1, and the other, whose
\* expected version the stream has then passed for good, fails with
\* ExpectedVersionConflictError and appends no event.
C1_ExactlyOneAppendWins ==
    [][C1_WinnerStep /\ C1_LoserStep /\ VersionNeverDecreases]_vars

\* C1's case: one invocation has appended with expected version v and is at
\* version v + 1, the other has failed with the conflict of v against v + 1.
C1_Witness ==
    \E i, j \in InvocationIds :
        /\ i # j
        /\ inv[i].streamId = inv[j].streamId
        /\ inv[i].pc = "appended"
        /\ inv[j].pc = "done"
        /\ inv[j].error = "ExpectedVersionConflictError"
        /\ inv[j].expectedRevision = inv[i].expectedRevision
        /\ inv[j].expectedRevision = {inv[i].nextExpectedStreamVersion - 1}
        /\ inv[j].current = inv[i].nextExpectedStreamVersion

\* C2: every event the store accepts was decided on the state that is the
\* fold of the events preceding it in the stream, that is, the state the
\* invocation folded from what it read equals the fold of the stream at the
\* moment of the append.
C2_DecidedOnPrecedingEvents ==
    [][\A i \in InvocationIds :
          AppendStep(i) /\ inv'[i].pc = "appended" =>
              Fold(inv[i].readResult.events) = Fold(streams[inv[i].streamId])]_vars

Terminal == {"ShoppingCartConfirmed", "ShoppingCartCancelled"}

\* C3: no stream holds an event after a ShoppingCartConfirmed or a
\* ShoppingCartCancelled event.
C3_NothingAfterTerminal ==
    \A id \in StreamIds :
        \A k \in 1..(Len(streams[id]) - 1) : streams[id][k].type \notin Terminal

\* The commands the routes can build for a cart.
NonOpenCommands(id) ==
    {AddProductItemCommand(id, p, q, productCatalog[p]) :
        p \in DOMAIN productCatalog, q \in SerialQuantities}
    \cup {RemoveProductItemCommand(id, p, q) :
        p \in SerialProductIds, q \in SerialQuantities}
    \cup {ConfirmShoppingCartCommand(id), CancelShoppingCartCommand(id)}

OpenCommands(id) == {OpenShoppingCartCommand(id, c) : c \in CustomerIds}

Rejects(command, state) ==
    \A now \in Times : decide(command, state, now).type = "IllegalStateError"

\* C4: on the state of every stream whose fold is Confirmed or Cancelled,
\* decide rejects each of the five commands with IllegalStateError.
C4_TerminalRejectsEveryCommand ==
    \A id \in StreamIds :
        Fold(streams[id]).status \in {"Confirmed", "Cancelled"} =>
            \A command \in OpenCommands(id) \cup NonOpenCommands(id) :
                Rejects(command, Fold(streams[id]))

\* C5: on the state of a stream without events decide rejects Add, Remove,
\* Confirm and Cancel with IllegalStateError, and accepts Open, which yields
\* an Opened cart without items.
C5_AbsentAcceptsOnlyOpen ==
    \A id \in StreamIds :
        Len(streams[id]) = 0 =>
            /\ \A command \in NonOpenCommands(id) : Rejects(command, Fold(streams[id]))
            /\ \A command \in OpenCommands(id), now \in Times :
                  LET event == decide(command, Fold(streams[id]), now) IN
                  /\ event.type = "ShoppingCartOpened"
                  /\ evolve(Fold(streams[id]), event).status = "Opened"
                  /\ evolve(Fold(streams[id]), event).items = << >>

\* C6: every line item of every cart has a quantity greater than 0.
C6_QuantitiesPositive ==
    \A id \in StreamIds :
        LET items == Fold(streams[id]).items IN
        \A k \in 1..Len(items) : items[k].quantity > 0

\* Every event is at the stream position that is its index, and the version
\* readStream gives is the number of events.
VersionIsEventCount ==
    \A id \in StreamIds :
        /\ readStream(streams, id).currentStreamVersion = Len(streams[id])
        /\ \A k \in 1..Len(streams[id]) : streams[id][k].metadata.streamPosition = k

\* A step adds at most one event to a stream and keeps the events it had; an
\* accepted command adds exactly one and is given the new count as its
\* version; a command that fails adds none.
C7_VersionStep ==
    /\ \A id \in StreamIds :
          \/ streams'[id] = streams[id]
          \/ OneEventAppended(id)
    /\ \A i \in InvocationIds :
          /\ AppendStep(i) /\ inv'[i].pc = "appended" =>
                /\ OneEventAppended(inv[i].streamId)
                /\ inv'[i].nextExpectedStreamVersion = Len(streams'[inv[i].streamId])
          /\ inv'[i] # inv[i] /\ inv'[i].pc = "done" /\ inv'[i].status = 400 =>
                UNCHANGED streams
          /\ inv'[i] # inv[i] /\ inv'[i].pc = "done" /\ inv'[i].status # 400 =>
                /\ UNCHANGED streams
                /\ inv'[i].revision = toString(inv[i].nextExpectedStreamVersion)

\* C7: the version of every stream is the number of its events, in every
\* reachable state; each accepted command raises it by exactly 1 and is
\* answered with the raised version, no failed command changes it, and it
\* never decreases or skips a value.
C7_VersionCountsEvents ==
    []VersionIsEventCount /\ [][C7_VersionStep]_vars

\* C7's case: a stream of at least two events, one command answered with the
\* stream's version as its revision, another answered with a failure.
C7_Witness ==
    \E i, j \in InvocationIds :
        /\ i # j
        /\ inv[i].pc = "done" /\ inv[i].status = 200
        /\ Len(streams[inv[i].streamId]) >= 2
        /\ inv[i].revision = toString(Len(streams[inv[i].streamId]))
        /\ inv[j].pc = "done" /\ inv[j].status = 400
        /\ inv[j].streamId = inv[i].streamId

\* Invocation i decides and appends with a supplied expected version that is
\* not the version of its stream.
MismatchedAppendStep(i) ==
    /\ AppendStep(i)
    /\ \E v \in inv[i].expectedRevision : v # Len(streams[inv[i].streamId])

\* C8, as stated: a command whose supplied expected version differs from the
\* stream's current version fails with ExpectedVersionConflictError and
\* leaves the stream's events, its version and its file unchanged.
C8_MismatchAlwaysConflict ==
    [][\A i \in InvocationIds :
          MismatchedAppendStep(i) =>
              /\ inv'[i].pc = "done"
              /\ inv'[i].error = "ExpectedVersionConflictError"
              /\ UNCHANGED <<streams, files>>]_vars

\* C8, amended: a command whose supplied expected version differs from the
\* stream's version when the handler decides and appends fails, with
\* decide's IllegalStateError if decide rejects it on the state read and with
\* ExpectedVersionConflictError otherwise, and leaves the stream's events,
\* its version and its file unchanged.
C8_MismatchFails ==
    [][\A i \in InvocationIds :
          MismatchedAppendStep(i) =>
              /\ inv'[i].pc = "done"
              /\ inv'[i].status = 400
              /\ inv'[i].error = IF PassesToAppend(i)
                                 THEN "ExpectedVersionConflictError"
                                 ELSE "IllegalStateError"
              /\ UNCHANGED <<streams, files>>]_vars

\* C8's case: a command has failed with the conflict of its expected version
\* against a different current version of a stream that has events and a
\* file.
C8_Witness ==
    \E i \in InvocationIds :
        /\ inv[i].pc = "done"
        /\ inv[i].error = "ExpectedVersionConflictError"
        /\ inv[i].expectedRevision # {inv[i].current}
        /\ Len(streams[inv[i].streamId]) > 0
        /\ files[inv[i].streamId].complete

\* C9: the step in which a command fails with the validation error (no price
\* for the product) or with decide's IllegalStateError leaves the events of
\* every stream, and so its version, and every file as they were.
C9_RejectionChangesNothing ==
    [][\A i \in InvocationIds :
          /\ inv'[i] # inv[i]
          /\ inv'[i].pc = "done"
          /\ inv'[i].error \in {"Error", "IllegalStateError"}
          => UNCHANGED <<streams, files>>]_vars

\* C9's case: against a stream that has events and a file, one command has
\* failed with the validation error and another with IllegalStateError.
C9_Witness ==
    \E i, j \in InvocationIds :
        /\ inv[i].pc = "done" /\ inv[i].error = "Error"
        /\ inv[j].pc = "done" /\ inv[j].error = "IllegalStateError"
        /\ inv[i].streamId = inv[j].streamId
        /\ Len(streams[inv[i].streamId]) > 0
        /\ files[inv[i].streamId].complete

\* C10: a command whose file write failed is not answered as succeeded: its
\* answer is the failure, without a new revision.
C10_WriteFailureNotSuccess ==
    \A i \in InvocationIds :
        inv[i].pc = "done" /\ inv[i].writeFailed =>
            inv[i].status = 400 /\ inv[i].revision = << >>

\* ------------------------------------------------ the file and the stream

\* The file of the stream is complete and holds the events of the in-memory
\* stream, in their order, and its version.
FileHoldsStream(id) ==
    LET written == jsonData(id, readStream(streams, id), CHOOSE now \in Times : TRUE)
    IN  /\ files[id].complete
        /\ files[id].events = written.events
        /\ files[id].currentStreamVersion = written.currentStreamVersion

\* Invocation i returns from the file store's appendToStream.
AppendReturns(i) ==
    inv[i].pc \in {"saving", "writing"} /\ inv'[i].pc = "done"

\* The event that invocation i appended, at the position the store gave it,
\* is in the file of its stream.
OwnEventInFile(i) ==
    LET id == inv[i].streamId
        position == inv[i].nextExpectedStreamVersion
    IN  /\ files'[id].complete
        /\ Len(files'[id].events) >= position
        /\ files'[id].events[position].type = streams'[id][position].type
        /\ files'[id].events[position].data = jsonOfData(streams'[id][position].data)

\* C11: an append has no partial effect: when appendToStream returns, either
\* the new event is in the in-memory stream and in the file, or it is in
\* neither.
C11_NoPartialEffect ==
    [][\A i \in InvocationIds :
          AppendReturns(i) =>
              \/ OwnEventInFile(i)
              \/ /\ Len(streams'[inv[i].streamId]) < inv[i].nextExpectedStreamVersion
                 /\ ~files'[inv[i].streamId].exists]_vars

\* C12: when an append returns after its file write has succeeded and no
\* other request on the stream is in flight, the file holds exactly the
\* events of the in-memory stream, in the same order, and the same version.
C12_FileHoldsStreamWhenQuiet ==
    [][\A i \in InvocationIds :
          /\ AppendReturns(i)
          /\ ~inv'[i].writeFailed
          /\ \A j \in InvocationIds \ {i} :
                Free(j) \/ inv[j].streamId # inv[i].streamId
          => FileHoldsStream(inv[i].streamId)']_vars

\* ------------------------------------------------------ restart and load

\* The types and the data of the events, in their order.
TypesAndData(events) ==
    [k \in 1..Len(events) |-> [type |-> events[k].type, data |-> events[k].data]]

\* The stream as the load builds it from the stream's file when it runs to
\* completion in a store that holds nothing and handles no command.
LoadedToCompletion(id) ==
    IF files[id].complete /\ Len(files[id].events) > 0
    THEN originalAppendToStream([s \in StreamIds |-> << >>], id,
                                eventsOfFile(files[id]), {}).streams[id]
    ELSE << >>

\* C13: when the process restarts while nothing is in flight, and the load
\* then runs to completion before any command, readStream gives for every
\* stream the event types and data, in the same order, and the version it
\* gave before the restart.
C13_RestartPreservesStreams ==
    [][Restart /\ (\A i \in InvocationIds : Free(i)) =>
          \A id \in StreamIds :
              /\ TypesAndData(LoadedToCompletion(id)) = TypesAndData(streams[id])
              /\ Len(LoadedToCompletion(id)) = readStream(streams, id).currentStreamVersion]_vars

\* The load returns from the appendToStream of a file's events.
LoaderReturns ==
    /\ inv[LoaderSlot].pc \in {"saving", "writing"}
    /\ inv'[LoaderSlot].pc \in {"done", "loadNext"}

\* C14: when a command is handled while the load is running, the persisted
\* events come first in the stream, once and in their order, with the newly
\* accepted events after them, in memory and on file: the load appends the
\* events of a file to a stream that holds none yet, and when the load's
\* append has returned after the command's, the file holds the stream.
C14_LoadedEventsFirst ==
    [][/\ LoadAppend => Len(streams[inv[LoaderSlot].streamId]) = 0
       /\ LoaderReturns /\ ~inv'[LoaderSlot].writeFailed /\ Free(CommandSlot) =>
             FileHoldsStream(inv[LoaderSlot].streamId)']_vars

\* C15: the startup load, a reader of the stream files, never reads a file
\* that is partially written (and so does not parse).
C15_ReaderSeesCompleteFile ==
    inv[LoaderSlot].error # "SyntaxError"

\* ------------------------------------------------- the decider's rules

\* The command just given to decide, the state it was decided on, and the
\* state after it.
Given == inv'[SerialSlot].command

StateBefore == Fold(streams[inv'[SerialSlot].streamId])

StateAfter == Fold(streams'[inv'[SerialSlot].streamId])

Rejected == inv'[SerialSlot].error = "IllegalStateError" /\ UNCHANGED streams

\* The command was accepted with one event of the type.
AcceptedAs(type) ==
    LET id == inv'[SerialSlot].streamId IN
    /\ inv'[SerialSlot].error = ""
    /\ OneEventAppended(id)
    /\ streams'[id][Len(streams'[id])].type = type

\* C16: on an Opened cart, ConfirmShoppingCart is rejected with
\* IllegalStateError when the cart holds no item, and is accepted with a
\* ShoppingCartConfirmed event, which makes the cart Confirmed, when it
\* holds at least one.
C16_ConfirmNeedsItems ==
    [][Given.type = "ConfirmShoppingCart" /\ StateBefore.status = "Opened" =>
          IF Len(StateBefore.items) = 0
          THEN Rejected
          ELSE AcceptedAs("ShoppingCartConfirmed") /\ StateAfter.status = "Confirmed"]_vars

\* C16's case: ConfirmShoppingCart has just been accepted on an Opened cart
\* that holds an item.
C16_Witness ==
    \E id \in StreamIds :
        /\ inv[SerialSlot].command = ConfirmShoppingCartCommand(id)
        /\ inv[SerialSlot].error = ""
        /\ Len(streams[id]) = MaxEvents
        /\ streams[id][1].type = "ShoppingCartOpened"
        /\ streams[id][MaxEvents].type = "ShoppingCartConfirmed"
        /\ Len(Fold(streams[id]).items) >= 1

\* No two lines of a cart have the same product identifier.
LinesHaveDistinctProducts ==
    \A id \in StreamIds :
        LET items == Fold(streams[id]).items IN
        \A j, k \in 1..Len(items) : items[j].productId = items[k].productId => j = k

\* The fold of an accepted ProductItemAdded event: the quantity is summed
\* into the line of the product, which keeps its place and its unit price,
\* or, when the cart has no line of the product, the item is one new line
\* after the others.
C17_AddStep ==
    Given.type = "AddProductItemToShoppingCart" /\ inv'[SerialSlot].error = "" =>
        LET item == Given.data.productItem
            before == StateBefore.items
            after == StateAfter.items
        IN  IF \E k \in 1..Len(before) : before[k].productId = item.productId
            THEN /\ Len(after) = Len(before)
                 /\ \A k \in 1..Len(before) :
                       after[k] = IF before[k].productId = item.productId
                                  THEN [before[k] EXCEPT
                                           !.quantity = before[k].quantity + item.quantity]
                                  ELSE before[k]
            ELSE after = Append(before, item)

\* C17: folding ProductItemAdded for a product already in the cart sums the
\* quantities into the existing line and keeps that line's unit price; for a
\* product not in the cart it adds one new line; and in every reachable
\* state no two lines share a product identifier.
C17_AddMergesByProduct ==
    []LinesHaveDistinctProducts /\ [][C17_AddStep]_vars

\* C17's case: an item of a product the cart already holds, at another unit
\* price, has just been added: the line holds the sum at the first price.
C17_Witness ==
    \E id \in StreamIds :
        LET items == Fold(streams[id]).items IN
        /\ inv[SerialSlot].command = AddProductItemCommand(id, "p1", 2, 20)
        /\ inv[SerialSlot].error = ""
        /\ Len(items) = 1
        /\ items[1] = [productId |-> "p1", quantity |-> 3, unitPrice |-> 10]

\* C18: on an Opened cart, RemoveProductItemFromShoppingCart is rejected
\* with IllegalStateError when the cart has no line of the product or the
\* line holds less than the quantity asked, and is accepted, with a
\* ProductItemRemoved event, when the line holds that quantity or more.
C18_RemoveNeedsHeldQuantity ==
    [][Given.type = "RemoveProductItemFromShoppingCart" /\ StateBefore.status = "Opened" =>
          LET item == Given.data.productItem
              lines == StateBefore.items
          IN  IF \E k \in 1..Len(lines) :
                     /\ lines[k].productId = item.productId
                     /\ lines[k].quantity >= item.quantity
              THEN AcceptedAs("ProductItemRemovedFromShoppingCart")
              ELSE Rejected]_vars

\* C18's case: the removal of 2 of a product has just been rejected on an
\* Opened cart that holds 1 of it.
C18_Witness ==
    \E id \in StreamIds :
        LET state == Fold(streams[id]) IN
        /\ inv[SerialSlot].command = RemoveProductItemCommand(id, "p1", 2)
        /\ inv[SerialSlot].error = "IllegalStateError"
        /\ state.status = "Opened"
        /\ state.id = id
        /\ \E k \in 1..Len(state.items) :
              state.items[k].productId = "p1" /\ state.items[k].quantity = 1

\* The fold of an accepted ProductItemRemoved event: the line of the product
\* holds the difference, in its place, or is gone when the difference is 0
\* or less; the other lines are as they were, in their order.
C19_RemoveStep ==
    Given.type = "RemoveProductItemFromShoppingCart" /\ inv'[SerialSlot].error = "" =>
        LET item == Given.data.productItem
            before == StateBefore.items
            after == StateAfter.items
            Other(line) == line.productId # item.productId
            Same(line) == line.productId = item.productId
        IN  /\ SelectSeq(after, Other) = SelectSeq(before, Other)
            /\ \A k \in 1..Len(before) :
                  before[k].productId = item.productId =>
                      IF before[k].quantity - item.quantity <= 0
                      THEN SelectSeq(after, Same) = << >>
                      ELSE /\ Len(after) = Len(before)
                           /\ after[k] = [before[k] EXCEPT
                                            !.quantity = before[k].quantity - item.quantity]

\* On an Opened cart that a removal has left without items, Confirm is
\* rejected with IllegalStateError.
C19_ConfirmAfterFullRemoval ==
    /\ Given.type = "RemoveProductItemFromShoppingCart"
    /\ inv'[SerialSlot].error = ""
    /\ StateAfter.status = "Opened"
    /\ StateAfter.items = << >>
    => Rejects(ConfirmShoppingCartCommand(inv'[SerialSlot].streamId), StateAfter)

\* C19: folding an accepted ProductItemRemoved event subtracts the removed
\* quantity from the matching line, drops the line when the result is 0 or
\* less, and leaves every other line unchanged; after the removal of the
\* full quantity of the only product the item list is empty and Confirm is
\* rejected with IllegalStateError.
C19_RemoveSubtractsOrDrops ==
    [][C19_RemoveStep /\ C19_ConfirmAfterFullRemoval]_vars

\* C19's case: the full quantity of the only product of an Opened cart has
\* just been removed, and the cart holds no item.
C19_Witness ==
    \E id \in StreamIds :
        /\ inv[SerialSlot].command = RemoveProductItemCommand(id, "p1", 2)
        /\ inv[SerialSlot].error = ""
        /\ Len(streams[id]) = MaxEvents
        /\ streams[id][1].type = "ShoppingCartOpened"
        /\ Fold(SubSeq(streams[id], 1, MaxEvents - 1)).items
              = <<[productId |-> "p1", quantity |-> 2, unitPrice |-> 10]>>
        /\ Fold(streams[id]).items = << >>

\* ------------------------------------------------- the returned version

\* The request just answered.
Answered == inv'[SerialSlot]

\* The answer to a successful command carries the version that a read of
\* the stream then reports (GET /carts/:id: String(currentStreamVersion)).
C20_ReturnedIsRead ==
    Answered.status \in {200, 201} =>
        Answered.revision =
            toString(readStream(streams', Answered.streamId).currentStreamVersion)

\* A command on the cart is handled that was sent with the If-Match header.
SentWith(id, revisionHeader) ==
    \/ \E p \in SerialProductIds, q \in SerialQuantities :
          \/ SerialPostItems(id, p, q, revisionHeader)
          \/ SerialDeleteItems(id, p, q, revisionHeader)
    \/ SerialPostConfirm(id, revisionHeader)
    \/ SerialPostCancel(id, revisionHeader)

\* A command sent with the version that a read of the stream reports does
\* not fail with the version conflict: no answer of a version conflict is
\* the answer to such a command.
C20_CurrentIsAccepted ==
    Answered.error = "ExpectedVersionConflictError" =>
        \A id \in StreamIds :
            ~SentWith(id, toString(readStream(streams, id).currentStreamVersion))

\* A command sent with the revision that the answer before it, to a
\* successful command on the same stream, returned does not fail with the
\* version conflict.
C20_ChainedIsAccepted ==
    /\ Answered.error = "ExpectedVersionConflictError"
    /\ inv[SerialSlot].status \in {200, 201}
    => ~SentWith(inv[SerialSlot].streamId, inv[SerialSlot].revision)

StepsOn(i) == inv'[i].streamId

\* A step of an invocation leaves the events, the version and the file of
\* every stream other than its own as they were.
C21_OtherStreamsUnchanged ==
    \A i \in InvocationIds :
        inv'[i] # inv[i] =>
            \A other \in DOMAIN streams \ {StepsOn(i)} :
                /\ streams'[other] = streams[other]
                /\ readStream(streams', other).currentStreamVersion
                      = readStream(streams, other).currentStreamVersion
                /\ files'[other] = files[other]

\* What the fold, decide and append of an invocation that has read its
\* stream would answer, in a store that holds `all`.
OutcomeIn(all, j) ==
    {handleCommandAppend(all, inv[j], now).type : now \in Times}

\* A step of an invocation on one stream does not change what an invocation
\* on another stream, waiting between its read and its append, will be
\* answered.
C21_OtherOutcomesUnchanged ==
    \A i, j \in InvocationIds :
        /\ inv'[i] # inv[i]
        /\ inv[j].pc = "read"
        /\ inv[j].streamId # StepsOn(i)
        => /\ inv'[j] = inv[j]
           /\ OutcomeIn(streams', j) = OutcomeIn(streams, j)

\* C21: a command on one stream leaves the events, the version and the file
\* of every other stream unchanged, and invocations on different streams do
\* not make one another fail, in every interleaving of their steps.
C21_StreamsDoNotInterfere ==
    [][C21_OtherStreamsUnchanged /\ C21_OtherOutcomesUnchanged]_vars

\* An invocation with an expected version waits between its read and its
\* append on a stream that holds an event, while another stream has taken
\* an event that is already in its file.
C21_Witness ==
    \E j \in InvocationIds, a, b \in DOMAIN streams :
        /\ a # b
        /\ inv[j].pc = "read"
        /\ inv[j].streamId = a
        /\ inv[j].expectedRevision = {Len(streams[a])}
        /\ Len(streams[a]) > 0
        /\ Len(streams[b]) > 0
        /\ files[b].complete

\* C22: a query for a stream without events is answered NotFound (404), and
\* a query for a stream that has events is answered with the cart folded
\* from them and the stream's current version, also when the cart holds no
\* items.
C22_NotFoundOnlyWithoutEvents ==
    [][\A id \in StreamIds :
          GetCart(id) =>
              IF Len(streams[id]) = 0
              THEN Answered.status = 404
              ELSE /\ Answered.status = 200
                   /\ Answered.cart = jsonOfCart(Fold(streams[id]))
                   /\ BigInt(Answered.revision) = Len(streams[id])]_vars

\* A query has been answered with a cart that holds no items: the stream has
\* its Opened event and nothing else.
C22_Witness ==
    \E id \in StreamIds :
        /\ Len(streams[id]) = 1
        /\ streams[id][1].type = "ShoppingCartOpened"
        /\ inv[SerialSlot].status = 200
        /\ "cart" \in DOMAIN inv[SerialSlot]
        /\ inv[SerialSlot].cart.items = << >>
        /\ inv[SerialSlot].cart.id = id
        /\ inv[SerialSlot].revision = toString(1)

\* The category under which a route reports an outcome to its caller: the
\* status of the response. The body of a failure holds the message text of
\* whatever was thrown, and nothing that names the kind of error.
ReportedCategory(answer) == answer.status

\* C23: a version conflict is reported to the caller under a category other
\* than that of a rejection by the decider (IllegalStateError) and that of
\* a validation failure (the Error thrown for an unknown product).
C23_ConflictReportedApart ==
    \A i, j \in InvocationIds :
        /\ inv[i].pc = "done"
        /\ inv[j].pc = "done"
        /\ inv[i].error = "ExpectedVersionConflictError"
        /\ inv[j].error \in {"IllegalStateError", "Error"}
        => ReportedCategory(inv[i]) # ReportedCategory(inv[j])

\* The summary document of the events stored so far.
Document == FoldSummary(EventsInOrder(streams))

\* The cart is in the document's cart list.
Tracked(document, id) ==
    document # NoDocument /\ findCartIndex(document.carts, id) > 0

\* C24: the per-customer fold, given an event of a cart that is not in the
\* document's cart list, returns the document with no field changed. (The
\* Opened event, which is what enters a cart into the list, is left out.)
C24_UntrackedCartLeavesDocument ==
    \A id \in TwoStreamIds :
        ~Tracked(Document, id) =>
            \A event \in EventVariants(id) :
                event.type # "ShoppingCartOpened" =>
                    evolveCustomerShoppingSummary(Document, event, id) = Document

\* C25: the first event of every stream that holds events is
\* ShoppingCartOpened.
C25_FirstEventIsOpened ==
    \A id \in DOMAIN streams :
        Len(streams[id]) > 0 => streams[id][1].type = "ShoppingCartOpened"

\* C26: every event of a stream carries the stream's identifier as its
\* shoppingCartId, and is stored under that stream's name.
C26_EventsCarryStreamId ==
    \A id \in DOMAIN streams :
        \A k \in 1..Len(streams[id]) :
            /\ streams[id][k].data.shoppingCartId = id
            /\ streams[id][k].metadata.streamName = id

\* Two streams hold events, one of them more than one.
C26_Witness ==
    \E a, b \in DOMAIN streams :
        /\ a # b
        /\ Len(streams[a]) > 1
        /\ Len(streams[b]) > 0

\* C27: every append that command handling issues carries an expected
\* version, and it is the version that the invocation's own readStream
\* returned. (The load's append, which carries none, is no step of a
\* command invocation.)
C27_AppendCarriesReadVersion ==
    [][\A i \in InvocationIds :
          AppendStep(i) /\ PassesToAppend(i) =>
              inv[i].expectedRevision = {inv[i].readResult.currentStreamVersion}]_vars

\* The error that the step after the read throws, if any: decide's, or else
\* the store's for an expected version that is not the stream's.
ThrownBy(i) ==
    LET decisions == {decide(inv[i].command, Fold(inv[i].readResult.events), now).type :
                         now \in Times}
    IN  IF ~PassesToAppend(i)
        THEN decisions
        ELSE IF \E v \in inv[i].expectedRevision : v # Len(streams[inv[i].streamId])
        THEN {"ExpectedVersionConflictError"}
        ELSE {}

\* An invocation that has read its stream goes on, in one step, either to
\* the save with exactly one event appended to its stream, or to its answer
\* with the error thrown and no stream changed; it does not read again.
C28_OneDecideOneAppend ==
    \A i \in InvocationIds :
        inv[i].pc = "read" /\ inv'[i] # inv[i] =>
            /\ AppendStep(i)
            /\ IF ThrownBy(i) = {}
               THEN /\ inv'[i].pc = "appended"
                    /\ OneEventAppended(inv[i].streamId)
               ELSE /\ inv'[i].pc = "done"
                    /\ inv'[i].status = 400
                    /\ inv'[i].error \in ThrownBy(i)
                    /\ streams' = streams

\* After its append an invocation neither reads for a decision nor appends
\* again: it goes on to the save and to its answer, and the streams stay as
\* they are.
C28_NothingAfterAppend ==
    \A i \in InvocationIds :
        inv[i].pc \in {"appended", "saving", "writing"} /\ inv'[i] # inv[i] =>
            /\ inv'[i].pc \in {"saving", "writing", "done"}
            /\ streams' = streams

\* C28: an invocation of the command handler performs one read, at most one
\* decide and at most one append, of exactly one event; after a version
\* conflict or a rejection by decide it reads and appends nothing more, and
\* that error is what its caller is answered.
C28_NoRetry ==
    [][C28_OneDecideOneAppend /\ C28_NothingAfterAppend]_vars

\* One invocation has been answered a version conflict and the other a
\* rejection by decide, on a stream that holds events.
C28_Witness ==
    \E i, j \in InvocationIds :
        /\ inv[i].pc = "done" /\ inv[i].error = "ExpectedVersionConflictError"
        /\ inv[j].pc = "done" /\ inv[j].error = "IllegalStateError"
        /\ inv[i].streamId = inv[j].streamId
        /\ Len(streams[inv[i].streamId]) > 0

\* A value is a cart state: the fields of ShoppingCart, a status of the
\* three, and line items with a product and a quantity.
IsCartState(state) ==
    /\ DOMAIN state = DOMAIN initialState
    /\ state.status \in {"Opened", "Confirmed", "Cancelled"}
    /\ \A k \in DOMAIN state.items :
          {"productId", "quantity"} \subseteq DOMAIN state.items[k]

\* C29: evolve, given any state that a sequence of events folds to (the
\* initial state and the terminal states among them) and an event of any of
\* the five variants, returns a cart state; given an event of a type it does
\* not know, it returns the state it was given.
C29_EvolveIsTotal ==
    \A id \in StreamIds :
        LET state == Fold(streams[id]) IN
        /\ IsCartState(state)
        /\ \A event \in EventVariants(id) : IsCartState(evolve(state, event))
        /\ evolve(state, UnknownEvent(id)) = state

\* A cart that was opened and closed has also been given an event of an
\* unknown type.
C29_Witness ==
    \E id \in StreamIds :
        /\ Len(streams[id]) >= 3
        /\ Fold(streams[id]).status \in {"Confirmed", "Cancelled"}
        /\ Fold(streams[id]).id = id
        /\ \E k \in 1..Len(streams[id]) : streams[id][k].type = "ShoppingCartArchived"

\* The event type that answers each command type, and its timestamp field.
EventTypeOf(commandType) ==
    CASE commandType = "OpenShoppingCart" -> "ShoppingCartOpened"
      [] commandType = "AddProductItemToShoppingCart" -> "ProductItemAddedToShoppingCart"
      [] commandType = "RemoveProductItemFromShoppingCart" ->
            "ProductItemRemovedFromShoppingCart"
      [] commandType = "ConfirmShoppingCart" -> "ShoppingCartConfirmed"
      [] commandType = "CancelShoppingCart" -> "ShoppingCartCancelled"

TimestampOf(commandType) ==
    CASE commandType = "OpenShoppingCart" -> "openedAt"
      [] commandType = "AddProductItemToShoppingCart" -> "addedAt"
      [] commandType = "RemoveProductItemFromShoppingCart" -> "removedAt"
      [] commandType = "ConfirmShoppingCart" -> "confirmedAt"
      [] commandType = "CancelShoppingCart" -> "cancelledAt"

\* The event is the command's: its type answers the command's, its data are
\* the command's data, field by field, and the time given, and nothing else.
EventOfCommand(event, command, now) ==
    /\ event.type = EventTypeOf(command.type)
    /\ DOMAIN event.data = DOMAIN command.data \cup {TimestampOf(command.type)}
    /\ \A f \in DOMAIN command.data : event.data[f] = command.data[f]
    /\ event.data[TimestampOf(command.type)] = now

\* C30: a command that decide accepts, on any state a cart can be in, yields
\* one event: of the type that answers the command, with the command's cart
\* identifier and payload unchanged and the time it was given as its
\* timestamp. The command and the time thus determine the event, so that two
\* calls with the same command, state and time return equal events.
C30_EventCarriesCommandAndClock ==
    \A id \in DOMAIN streams :
        \A command \in SummaryCommands(id), now \in ClockTimes :
            LET outcome == decide(command, Fold(streams[id]), now) IN
            IsEvent(outcome) => EventOfCommand(outcome, command, now)

\* A cart holds the event of an Open decided at one time and the event of an
\* Add decided at another, and the last command decided was accepted.
C30_Witness ==
    \E id \in DOMAIN streams :
        /\ Len(streams[id]) >= 2
        /\ streams[id][1].type = "ShoppingCartOpened"
        /\ streams[id][2].type = "ProductItemAddedToShoppingCart"
        /\ streams[id][1].data.openedAt # streams[id][2].data.addedAt
        /\ inv[SerialSlot].error = ""
        /\ inv[SerialSlot].command.type # "none"

\* No event of the sequence is an Opened event.
NoOpened(events) ==
    \A k \in 1..Len(events) : events[k].type # "ShoppingCartOpened"

\* C31: given no document, each of the two projection folds creates the
\* document from an Opened event and returns no document for an event of
\* any other type; so the fold of a sequence of events without an Opened
\* event is no document.
C31_FoldsTolerateNoDocument ==
    \A id \in StreamIds :
        /\ \A event \in EventVariants(id) \cup {UnknownEvent(id)} :
              IF event.type = "ShoppingCartOpened"
              THEN /\ evolveShoppingCartSummary(NoDocument, event).id = id
                   /\ evolveShoppingCartSummary(NoDocument, event).items = << >>
                   /\ evolveCustomerShoppingSummary(NoDocument, event, id).customerId
                         = event.data.customerId
                   /\ Len(evolveCustomerShoppingSummary(NoDocument, event, id).carts) = 1
              ELSE /\ evolveShoppingCartSummary(NoDocument, event) = NoDocument
                   /\ evolveCustomerShoppingSummary(NoDocument, event, id) = NoDocument
        /\ NoOpened(streams[id]) =>
              /\ FoldCartSummary(streams[id]) = NoDocument
              /\ FoldSummary(streams[id]) = NoDocument

\* A cart has been given events of several types, none of them Opened.
C31_Witness ==
    \E id \in StreamIds :
        /\ Len(streams[id]) >= 3
        /\ NoOpened(streams[id])
        /\ streams[id][1].type = "ProductItemAddedToShoppingCart"
        /\ streams[id][2].type # streams[id][1].type

\* The invocation has been called and has not yet answered.
Running(i) == inv[i].pc \notin {"idle", "done"}

\* The invocation has answered its caller: with the new revision, or with an
\* error.
Returned(i) ==
    /\ inv[i].pc = "done"
    /\ \/ inv[i].status \in {200, 201} /\ Len(inv[i].revision) > 0
       \/ inv[i].status = 400 /\ inv[i].error # ""

\* C32: under fair scheduling every invocation of the command handler
\* eventually answers its caller, with a new version or with an error,
\* whatever the other invocation does and whether or not the file write
\* succeeds: at every moment there is a later one at which the slot has
\* answered the request it has taken (or has taken none yet).
C32_EveryInvocationReturns ==
    \A i \in InvocationIds : []<>(inv[i].pc = "idle" \/ Returned(i))

\* Both invocations are running on the same stream, one of them in the
\* middle of its file write.
C32_Witness ==
    \E i, j \in InvocationIds :
        /\ i # j
        /\ Running(i) /\ Running(j)
        /\ inv[i].streamId = inv[j].streamId
        /\ inv[i].pc = "writing"
        /\ inv[j].pc = "read"

\* The positions of the Opened events of a stream.
OpenedAt(events) ==
    {k \in 1..Len(events) : events[k].type = "ShoppingCartOpened"}

\* C33: no stream holds more than one ShoppingCartOpened event, and on every
\* state whose cart identifier is not empty, whatever its status, decide
\* rejects OpenShoppingCart with IllegalStateError.
C33_AtMostOneOpened ==
    \A id \in DOMAIN streams :
        /\ Cardinality(OpenedAt(streams[id])) <= 1
        /\ Fold(streams[id]).id # "" =>
              \A customerId \in CustomerIds, now \in ClockTimes :
                  decide(OpenShoppingCartCommand(id, customerId),
                         Fold(streams[id]), now).type = "IllegalStateError"

\* OpenShoppingCart has been rejected on a cart that was opened and then
\* closed.
C33_Witness ==
    \E id \in DOMAIN streams :
        /\ Cardinality(OpenedAt(streams[id])) = 1
        /\ Fold(streams[id]).status \in {"Confirmed", "Cancelled"}
        /\ inv[SerialSlot].streamId = id
        /\ inv[SerialSlot].command.type = "OpenShoppingCart"
        /\ inv[SerialSlot].error = "IllegalStateError"

\* The sequence of events starts with an Opened event.
StartsWithOpened(events) ==
    Len(events) > 0 /\ events[1].type = "ShoppingCartOpened"

\* C34: for every sequence of events that starts with ShoppingCartOpened
\* (every reachable stream is a prefix of the longer ones), the single-cart
\* summary fold and the evolve fold give the same id, customerId, status and
\* item list (product, quantity, unit price per line).
C34_SummaryFoldAgreesWithEvolve ==
    \A id \in StreamIds :
        StartsWithOpened(streams[id]) =>
            LET summary == FoldCartSummary(streams[id])
                state == Fold(streams[id])
            IN  /\ summary # NoDocument
                /\ summary.id = state.id
                /\ summary.customerId = state.customerId
                /\ summary.status = state.status
                /\ summary.items = state.items

\* An opened cart has been given the same product twice, so that the two
\* folds have merged a line.
C34_Witness ==
    \E id \in StreamIds :
        /\ StartsWithOpened(streams[id])
        /\ Len(streams[id]) >= 3
        /\ streams[id][2].type = "ProductItemAddedToShoppingCart"
        /\ streams[id][3].type = "ProductItemAddedToShoppingCart"
        /\ Len(Fold(streams[id]).items) = 1
        /\ Fold(streams[id]).items[1].quantity > streams[id][2].data.productItem.quantity

\* The amount and the number of items of a list of line items.
RECURSIVE AmountOf(_)
AmountOf(items) ==
    IF Len(items) = 0 THEN 0
    ELSE items[1].unitPrice * items[1].quantity + AmountOf(Tail(items))

RECURSIVE CountOf(_)
CountOf(items) ==
    IF Len(items) = 0 THEN 0 ELSE items[1].quantity + CountOf(Tail(items))

\* C35: in every document of the single-cart summary fold, after every
\* event (Confirmed and Cancelled among them), totalAmount is the sum over
\* the items of unit price times quantity, and totalItemsCount is the sum of
\* the items' quantities.
C35_TotalsMatchItems ==
    \A id \in StreamIds :
        LET summary == FoldCartSummary(streams[id]) IN
        summary # NoDocument =>
            /\ summary.totalAmount = AmountOf(summary.items)
            /\ summary.totalItemsCount = CountOf(summary.items)

\* A cart that holds more than one item of a product has been closed.
C35_Witness ==
    \E id \in StreamIds :
        LET summary == FoldCartSummary(streams[id]) IN
        /\ summary # NoDocument
        /\ summary.status \in {"Confirmed", "Cancelled"}
        /\ Len(summary.items) = 1
        /\ summary.items[1].quantity = 2
        /\ summary.totalAmount = 2 * summary.items[1].unitPrice

\* Every cart history is one the decider accepts command by command from
\* an Opened event on: each stream that holds events starts with Opened.
\* (The decider accepts at most one terminal event, and nothing after it.)
ValidHistories ==
    \A id \in DOMAIN streams :
        /\ Len(streams[id]) > 0 => StartsWithOpened(streams[id])
        /\ \A k \in 1..Len(streams[id]) :
              streams[id][k].type \in Terminal => k = Len(streams[id])

\* The number of listed carts with a status.
CartsWith(document, status) ==
    Cardinality({k \in 1..Len(document.carts) : document.carts[k].status = status})

\* C36: in the per-customer document folded from any interleaving of valid
\* histories of the customer's carts, totalCarts is the number of listed
\* carts and the sum of the three status counters, each counter is the
\* number of listed carts with its status, and no counter is negative.
C36_CountersMatchCarts ==
    ValidHistories /\ Document # NoDocument =>
        /\ Document.totalCarts = Len(Document.carts)
        /\ Document.totalCarts = Document.activeCartsCount
                                   + Document.confirmedCartsCount
                                   + Document.cancelledCartsCount
        /\ Document.activeCartsCount = CartsWith(Document, "Opened")
        /\ Document.confirmedCartsCount = CartsWith(Document, "Confirmed")
        /\ Document.cancelledCartsCount = CartsWith(Document, "Cancelled")
        /\ Document.activeCartsCount >= 0
        /\ Document.confirmedCartsCount >= 0
        /\ Document.cancelledCartsCount >= 0

\* The customer has two carts listed, one closed after the other was
\* opened and one still open.
C36_Witness ==
    /\ ValidHistories
    /\ Document # NoDocument
    /\ Len(Document.carts) = 2
    /\ CartsWith(Document, "Opened") = 1
    /\ CartsWith(Document, "Cancelled") = 1
    /\ EventsInOrder(streams)[2].type = "ShoppingCartOpened"

\* The amount of the listed carts that are confirmed.
RECURSIVE ConfirmedAmount(_)
ConfirmedAmount(carts) ==
    IF Len(carts) = 0 THEN 0
    ELSE (IF carts[1].status = "Confirmed" THEN carts[1].totalAmount ELSE 0)
            + ConfirmedAmount(Tail(carts))

C38_CustomerAmountIsCartAmount ==
    ValidHistories /\ Document # NoDocument =>
        \A id \in DOMAIN streams :
            Tracked(Document, id) =>
                Document.carts[findCartIndex(Document.carts, id)].totalAmount
                    = FoldCartSummary(streams[id]).totalAmount

\* The product identifier and the quantity of each line of an item list.
LinesOf(items) ==
    [k \in 1..Len(items) |->
        [productId |-> items[k].productId, quantity |-> items[k].quantity]]

\* The entry agrees with the state evolve folds from the events of its
\* stream: the same status, customer and lines.
AgreesWithFold(entry) ==
    LET state == Fold(streams[entry.id]) IN
    /\ entry.status = state.status
    /\ entry.customerId = {state.customerId}
    /\ LinesOf(entry.items) = LinesOf(state.items)

\* C39: the list getAllCarts answers with holds exactly one entry per
\* stream that has a file, and each entry has the status, the customer and
\* the lines (product identifier and quantity) of the state that evolve
\* folds from the events of its stream.
C39_CartsAgreeWithFold ==
    "carts" \in DOMAIN inv[SerialSlot] =>
        LET carts == inv[SerialSlot].carts IN
        /\ \A id \in DOMAIN files :
              Cardinality({k \in 1..Len(carts) : carts[k].id = id})
                  = IF files[id].exists THEN 1 ELSE 0
        /\ \A k \in 1..Len(carts) : AgreesWithFold(carts[k])

\* The same for the carts whose stream starts with ShoppingCartOpened.
CartsOfOpenedAgreeWithFold ==
    "carts" \in DOMAIN inv[SerialSlot] =>
        LET carts == inv[SerialSlot].carts IN
        /\ \A id \in DOMAIN files :
              Cardinality({k \in 1..Len(carts) : carts[k].id = id})
                  = IF files[id].exists THEN 1 ELSE 0
        /\ \A k \in 1..Len(carts) :
              StartsWithOpened(streams[carts[k].id]) => AgreesWithFold(carts[k])

====
